---------------------------- MODULE Spec2Model ----------------------------
(***************************************************************************)
(* A model of the Kademlia-style DHT peer: the routing table               *)
(* (RoutingTable.js), the heartbeat scheduler (Heartbeat.js), the message  *)
(* dispatch of DHTPeer.js and the message constructors of kPTP.js.         *)
(*                                                                         *)
(* A peer ID is the hex string of the code, written as the sequence of its *)
(* digits' values; a sender name is the sequence of its character codes.   *)
(* A JavaScript `undefined` is written Undef for a number, NoID for an ID, *)
(* NoName for a name and "" for an IP string.                              *)
(***************************************************************************)
EXTENDS Integers, Sequences, FiniteSets, TLC

(***************************************************************************)
(* Bounds of the model.                                                    *)
(***************************************************************************)
\* Peers 1..NumPeers exist; peer 1 is the node observed by Spec.
NumPeers == 3
\* The Singleton timer is followed up to this tick.
MaxTick == 1
\* Processes 1..NumProcs run in the closed network of SpecNet.
NumProcs == 3

(***************************************************************************)
(* Program constants.                                                      *)
(***************************************************************************)
NumBuckets == 16
MissLimit == 3
\* 0xffffffff, the value timerRun resets the timer at, is past TLC's
\* integers: it is WordMax * WordRange + WordMax.
WordRange == 65536
WordMax == 65535
TimerStartRange == 1000
WELCOME == 2
HELLO == 4
HEARTBEAT == 6
HEARTBEAT_RESPONSE == 8

Undef == -1
NoID == <<>>
LocalIP == "127.0.0.1"
MappedLocalIP == "::ffff:127.0.0.1"

Procs == 1..NumPeers

\* server.listen(0): the operating system picks the port; the model gives
\* process n the port BasePort + n.
BasePort == 40000
ListenPort(n) == BasePort + n
\* The port the operating system gives an outbound socket.
EphemeralPort == 50001

\* A hex string is the sequence of its digits' values; ToHex4 is the
\* 4-character string of a 16-bit number.
ToHex4(v) == <<v \div 4096, (v \div 256) % 16, (v \div 16) % 16, v % 16>>

\* Singleton.getPeerID: the first 4 hex characters of
\* blake2s256("<ip>:<port>"), as computed for the addresses of the model.
HashTable ==
  <<7370, 25820, 24047, 35447, 30992, 55951, 49529, 23677>>
EphemeralHash == 1276
getPeerID(ip, port) ==
  IF port = EphemeralPort THEN ToHex4(EphemeralHash)
  ELSE ToHex4(HashTable[port - BasePort])

\* A sender name is the sequence of its character codes: "p1", "p2", ...
PeerName(n) == <<112, 48 + n>>
NoName == <<>>

\* global.selfInfo of process n.
SelfInfoOf(n) ==
  [present |-> TRUE, senderName |-> PeerName(n), ip |-> LocalIP,
   port |-> ListenPort(n), peerID |-> getPeerID(LocalIP, ListenPort(n))]
NoSelfInfo ==
  [present |-> FALSE, senderName |-> NoName, ip |-> "", port |-> Undef,
   peerID |-> NoID]
MyID(n) == SelfInfoOf(n).peerID

(***************************************************************************)
(* Singleton.Hex2Bin, Singleton.XORing and the two uses the routing table  *)
(* makes of their result: parseInt(.., 2) and indexOf("1").                *)
(***************************************************************************)
\* parseInt(c, 16).toString(2).padStart(4, "0") of one hex character.
NibbleBits(c) == <<c \div 8, (c \div 4) % 2, (c \div 2) % 2, c % 2>>

RECURSIVE Hex2Bin(_)
Hex2Bin(hex) ==
  IF hex = <<>> THEN <<>> ELSE NibbleBits(hex[1]) \o Hex2Bin(Tail(hex))

\* a[i] === b[i] ? "0" : "1" for every index of a; an index past the end
\* of b reads undefined, which equals no character of a.
XORing(a, b) ==
  [i \in 1..Len(a) |-> IF i <= Len(b) /\ a[i] = b[i] THEN 0 ELSE 1]

RECURSIVE ParseBinFrom(_, _, _)
ParseBinFrom(bits, i, acc) ==
  IF i > Len(bits) THEN acc ELSE ParseBinFrom(bits, i + 1, 2 * acc + bits[i])
ParseBin(bits) == ParseBinFrom(bits, 1, 0)

RECURSIVE IndexOfFrom(_, _)
IndexOfFrom(bits, i) ==
  IF i > Len(bits) THEN -1
  ELSE IF bits[i] = 1 THEN i - 1 ELSE IndexOfFrom(bits, i + 1)
IndexOfOne(bits) == IndexOfFrom(bits, 1)

\* The IDs getPeerID gives the addresses of the model, and for each pair of
\* them the two numbers the routing table computes, tabulated once.
AllIDs ==
  { ToHex4(HashTable[i]) : i \in DOMAIN HashTable } \cup {ToHex4(EphemeralHash)}
DistanceTable ==
  [a \in AllIDs, b \in AllIDs |-> ParseBin(XORing(Hex2Bin(a), Hex2Bin(b)))]
IndexTable ==
  [a \in AllIDs, b \in AllIDs |-> IndexOfOne(XORing(Hex2Bin(a), Hex2Bin(b)))]

\* parseInt(XORing(Hex2Bin(self), Hex2Bin(id)), 2)
Distance(self, id) ==
  IF self \in AllIDs /\ id \in AllIDs THEN DistanceTable[self, id]
  ELSE ParseBin(XORing(Hex2Bin(self), Hex2Bin(id)))

(***************************************************************************)
(* RoutingTable.                                                           *)
(***************************************************************************)
EmptyTable == [b \in 0..(NumBuckets - 1) |-> <<>>]

\* getBucketIndex counting from the least significant bit.
getBucketIndexFromLow(self, id) ==
  LET index == IndexOfOne(XORing(Hex2Bin(self), Hex2Bin(id)))
  IN  IF index = -1 THEN 0 ELSE NumBuckets - 1 - index

getBucketIndex(self, id) ==
  LET index == IF self \in AllIDs /\ id \in AllIDs THEN IndexTable[self, id]
               ELSE IndexOfOne(XORing(Hex2Bin(self), Hex2Bin(id)))
  IN  IF index = -1 THEN 0 ELSE index

\* comparePeerDistance that lets a candidate as near and seen at the same
\* tick take the bucket.
comparePeerDistanceTieReplaces(self, existingPeer, newPeer) ==
  LET distanceExisting == Distance(self, existingPeer.peerID)
      distanceNew == Distance(self, newPeer.peerID)
  IN  IF distanceNew < distanceExisting THEN TRUE
      ELSE IF distanceNew = distanceExisting
           THEN newPeer.lastSeen >= existingPeer.lastSeen
           ELSE FALSE

\* comparePeerDistance that never lets the candidate take the bucket.
comparePeerDistanceNever(self, existingPeer, newPeer) == FALSE

\* comparePeerDistance that lets a candidate as near as the occupant in.
comparePeerDistanceAsNear(self, existingPeer, newPeer) ==
  Distance(self, newPeer.peerID) <= Distance(self, existingPeer.peerID)

comparePeerDistance(self, existingPeer, newPeer) ==
  LET distanceExisting == Distance(self, existingPeer.peerID)
      distanceNew == Distance(self, newPeer.peerID)
  IN  IF distanceNew < distanceExisting THEN TRUE
      ELSE IF distanceNew = distanceExisting
           THEN newPeer.lastSeen > existingPeer.lastSeen
           ELSE FALSE

\* pushBucket that adds the winning candidate to the bucket and keeps the
\* occupant.
pushBucketAppend(tbl, self, peer, now) ==
  IF peer.peerID = NoID THEN tbl
  ELSE
    LET p == IF peer.lastSeen = Undef THEN [peer EXCEPT !.lastSeen = now]
             ELSE peer
        bucketIndex == getBucketIndex(self, p.peerID)
        bucket == tbl[bucketIndex]
    IN  IF Len(bucket) = 0 \/ comparePeerDistance(self, bucket[1], p)
        THEN [tbl EXCEPT ![bucketIndex] = Append(bucket, p)]
        ELSE tbl

\* pushBucket that takes the bucket after the one getBucketIndex gives.
pushBucketNextBucket(tbl, self, peer, now) ==
  IF peer.peerID = NoID THEN tbl
  ELSE
    LET p == IF peer.lastSeen = Undef THEN [peer EXCEPT !.lastSeen = now]
             ELSE peer
        bucketIndex == (getBucketIndex(self, p.peerID) + 1) % NumBuckets
        bucket == tbl[bucketIndex]
    IN  IF Len(bucket) = 0
        THEN [tbl EXCEPT ![bucketIndex] = Append(bucket, p)]
        ELSE IF comparePeerDistance(self, bucket[1], p)
             THEN [tbl EXCEPT ![bucketIndex] = [bucket EXCEPT ![1] = p]]
             ELSE tbl

\* pushBucket without the validation of its argument.
pushBucketUnchecked(tbl, self, peer, now) ==
  LET p == IF peer.lastSeen = Undef THEN [peer EXCEPT !.lastSeen = now]
           ELSE peer
      bucketIndex == getBucketIndex(self, p.peerID)
      bucket == tbl[bucketIndex]
  IN  IF Len(bucket) = 0
      THEN [tbl EXCEPT ![bucketIndex] = Append(bucket, p)]
      ELSE IF comparePeerDistance(self, bucket[1], p)
           THEN [tbl EXCEPT ![bucketIndex] = [bucket EXCEPT ![1] = p]]
           ELSE tbl

\* pushBucket(peer) on the table `tbl` of the node whose ID is `self`, at
\* tick `now`.
pushBucket(tbl, self, peer, now) ==
  IF peer.peerID = NoID THEN tbl
  ELSE
    LET p == IF peer.lastSeen = Undef THEN [peer EXCEPT !.lastSeen = now]
             ELSE peer
        bucketIndex == getBucketIndex(self, p.peerID)
        bucket == tbl[bucketIndex]
    IN  IF Len(bucket) = 0
        THEN [tbl EXCEPT ![bucketIndex] = Append(bucket, p)]
        ELSE IF comparePeerDistance(self, bucket[1], p)
             THEN [tbl EXCEPT ![bucketIndex] = [bucket EXCEPT ![1] = p]]
             ELSE tbl

\* Array.prototype.filter.
RECURSIVE SeqFilterOut(_, _)
SeqFilterOut(s, id) ==
  IF s = <<>> THEN <<>>
  ELSE IF s[1].peerID # id
       THEN <<s[1]>> \o SeqFilterOut(Tail(s), id)
       ELSE SeqFilterOut(Tail(s), id)

\* removePeer that leaves the table as it is.
removePeerKeeps(tbl, self, id) == tbl

\* removePeer that empties the bucket whoever is in it.
removePeerAnyOccupant(tbl, self, id) ==
  [tbl EXCEPT ![getBucketIndex(self, id)] = <<>>]

removePeer(tbl, self, id) ==
  LET bucketIndex == getBucketIndex(self, id)
  IN  [tbl EXCEPT ![bucketIndex] = SeqFilterOut(tbl[bucketIndex], id)]

hasPeer(tbl, id) ==
  \E b \in DOMAIN tbl : \E i \in 1..Len(tbl[b]) : tbl[b][i].peerID = id

\* getAllPeers / getAllPeersArray / kBuckets.flat(): the buckets in index
\* order, each bucket's peers in order.
RECURSIVE FlattenFrom(_, _)
FlattenFrom(tbl, b) ==
  IF b >= NumBuckets THEN <<>>
  ELSE tbl[b] \o FlattenFrom(tbl, b + 1)
getAllPeers(tbl) == FlattenFrom(tbl, 0)

(***************************************************************************)
(* kPTP: the wire format.  A buffer is its bytes up to the end of the      *)
(* sender name, and the JSON text that follows them (`extra`): the object  *)
(* JSON.stringify was given, or NoSelfInfo when no text follows.           *)
(***************************************************************************)
kPTP_VERSION == 18
HeaderLen == 5
PeerEntryLen == 8
ByteRange == 256

\* ip.split(".").map(Number) written into 4 bytes; a part that is no
\* number is NaN and is stored as 0.
encodeIP(ip) ==
  CASE ip = "127.0.0.1" -> <<127, 0, 0, 1>>
    [] ip = "::ffff:127.0.0.1" -> <<0, 0, 0, 1>>
    [] ip = "0.0.0.1" -> <<0, 0, 0, 1>>
    [] OTHER -> <<0, 0, 0, 0>>

\* Array.from(ipBuf).join(".")
decodeIP(bytes) ==
  CASE bytes = <<127, 0, 0, 1>> -> "127.0.0.1"
    [] bytes = <<0, 0, 0, 1>> -> "0.0.0.1"
    [] bytes = <<0, 0, 0, 0>> -> "0.0.0.0"
    [] bytes = <<>> -> ""
    [] OTHER -> "?"

\* encodePort writing the low byte first.
encodePortLittleEndian(port) ==
  IF port = Undef THEN <<0, 0>>
  ELSE <<port % ByteRange, port \div ByteRange>>

\* writeUInt16BE(parseInt(port, 10)); NaN is written as 0.
encodePort(port) ==
  IF port = Undef THEN <<0, 0>>
  ELSE <<port \div ByteRange, port % ByteRange>>

\* Buffer.from(peerID, "hex"): one byte for every two digits.
RECURSIVE encodePeerID(_)
encodePeerID(hex) ==
  IF Len(hex) < 2 THEN <<>>
  ELSE <<16 * hex[1] + hex[2]>> \o encodePeerID(Tail(Tail(hex)))

\* buf.toString("hex")
RECURSIVE BytesToHex(_)
BytesToHex(bytes) ==
  IF bytes = <<>> THEN <<>>
  ELSE <<bytes[1] \div 16, bytes[1] % 16>> \o BytesToHex(Tail(bytes))

createHeader(messageType, numPeers, senderName) ==
  <<kPTP_VERSION, messageType, numPeers,
    Len(senderName) \div ByteRange, Len(senderName) % ByteRange>>

encodePeerInfo(peer) ==
  encodeIP(peer.ip) \o encodePort(peer.port) \o encodePeerID(peer.peerID)

\* Buffer.concat(peers.map(encodePeerInfo)), one half of the list after the
\* other.
RECURSIVE ConcatPeers(_)
ConcatPeers(peers) ==
  LET half == Len(peers) \div 2
  IN  IF peers = <<>> THEN <<>>
      ELSE IF Len(peers) = 1 THEN encodePeerInfo(peers[1])
      ELSE ConcatPeers(SubSeq(peers, 1, half))
             \o ConcatPeers(SubSeq(peers, half + 1, Len(peers)))

createMessage(messageType, senderName, peers) ==
  [bytes |-> createHeader(messageType, Len(peers), senderName)
               \o ConcatPeers(peers) \o senderName,
   extra |-> NoSelfInfo]

\* createWelcomeMessage that lists no peer.
createWelcomeMessageEmpty(senderName, peers) ==
  createMessage(WELCOME, senderName, <<>>)

createWelcomeMessage(senderName, peers) ==
  createMessage(WELCOME, senderName, peers)

createHelloMessage(senderName, peers, selfInfo) ==
  [createMessage(HELLO, senderName, peers) EXCEPT !.extra = selfInfo]

\* createHeartbeatMessage that lists nobody.
createHeartbeatMessageBare(senderName, senderIP, senderPort, senderPeerID) ==
  createMessage(HEARTBEAT, senderName, <<>>)

createHeartbeatMessage(senderName, senderIP, senderPort, senderPeerID) ==
  createMessage(HEARTBEAT, senderName,
                <<[ip |-> senderIP, port |-> senderPort,
                   peerID |-> senderPeerID]>>)

\* createHeartbeatResponse, writing a Heartbeat in the response's place.
createHeartbeatResponsePing(senderName, senderIP, senderPort, senderPeerID) ==
  createMessage(HEARTBEAT, senderName,
                <<[ip |-> senderIP, port |-> senderPort,
                   peerID |-> senderPeerID]>>)

createHeartbeatResponse(senderName, senderIP, senderPort, senderPeerID) ==
  createMessage(HEARTBEAT_RESPONSE, senderName,
                <<[ip |-> senderIP, port |-> senderPort,
                   peerID |-> senderPeerID]>>)

\* buffer.slice(from, to) with 0-based offsets, clamped to the buffer.
Slice(bytes, from, to) ==
  SubSeq(bytes, from + 1, IF to > Len(bytes) THEN Len(bytes) ELSE to)

\* The peer entry decodeMessage reads at `offset`.
DecodePeerAt(bytes, offset) ==
  [ip |-> decodeIP(Slice(bytes, offset, offset + 4)),
   port |-> bytes[offset + 5] * ByteRange + bytes[offset + 6],
   peerID |-> BytesToHex(Slice(bytes, offset + 6, offset + 8))]

\* decodeMessage(buffer).  readUInt8 and readUInt16BE throw on a read past
\* the end of the buffer (ok = FALSE); slice does not.
decodeMessage(buffer) ==
  LET bytes == buffer.bytes
      failed == [ok |-> FALSE, messageType |-> 0, senderName |-> NoName,
                 peers |-> <<>>, selfInfo |-> NoSelfInfo]
  IN  IF Len(bytes) < HeaderLen THEN failed
      ELSE
        LET messageType == bytes[2]
            numPeers == bytes[3]
            senderNameLength == bytes[4] * ByteRange + bytes[5]
            nameAt == HeaderLen + PeerEntryLen * numPeers
        IN  IF numPeers > 0 /\ nameAt - 2 > Len(bytes) THEN failed
            ELSE
              [ok |-> TRUE,
               messageType |-> messageType,
               senderName |-> Slice(bytes, nameAt, nameAt + senderNameLength),
               peers |-> [i \in 1..numPeers |->
                            DecodePeerAt(bytes,
                                         HeaderLen + PeerEntryLen * (i - 1))],
               selfInfo |-> IF nameAt + senderNameLength = Len(bytes)
                            THEN buffer.extra
                            ELSE NoSelfInfo]

(***************************************************************************)
(* The state.                                                              *)
(***************************************************************************)
VARIABLES
  kBuckets,      \* kBuckets[n]: the 16 buckets of process n's routing table
  missedCounts,  \* missedCounts[n]: Heartbeat.js's map peerID -> count
  timer,         \* timer[n]: the Singleton timer of process n
  log,           \* the console lines the last handler printed
  sent,          \* the socket writes and connects the last handler made
  net,           \* SpecNet: the connections open between the processes
  launched,      \* SpecNet: the processes whose server listens
  joined,        \* the processes that called joinNetwork
  presented,     \* SpecTable history: presented[b] holds the best of the
                 \* candidates given to pushBucket for bucket b, ever and
                 \* since bucket b was last emptied
  silent,        \* history: silent[n][id] counts the heartbeat cycles that
                 \* visited id since it entered n's table or since the
                 \* last heartbeat response n processed for it; it is kept
                 \* while id is in the table
  responded      \* history: responded[n] holds the ids for which n
                 \* processed a heartbeat response since its last cycle

vars ==
  <<kBuckets, missedCounts, timer, log, sent, net, launched, joined,
    presented, silent, responded>>

EmptyMap == [x \in {} |-> 0]
MapPut(m, k, v) == (k :> v) @@ m
MapDelete(m, k) == [x \in DOMAIN m \ {k} |-> m[x]]

\* A console line that names a peer.
Line(text, id) == [line |-> text, id |-> id]
\* socket.write(data) on an accepted or connected socket, and
\* connect(port, ip) followed by write(data) once connected.
Write(ip, port, data) ==
  [kind |-> "write", ip |-> ip, port |-> port, data |-> data]
Connect(ip, port, data) ==
  [kind |-> "connect", ip |-> ip, port |-> port, data |-> data]

\* What one handler works on: the process's table and map, the history of
\* the process, and what the handler printed and sent so far.
NodeState(n) ==
  [tbl |-> kBuckets[n], missed |-> missedCounts[n], silent |-> silent[n],
   responded |-> responded[n], log |-> <<>>, sent |-> <<>>]

(***************************************************************************)
(* Heartbeat.js and the handlers of DHTPeer.js, as functions of the state  *)
(* a handler works on.                                                     *)
(***************************************************************************)
\* The IDs of the records of a table.
PeerIDsOf(tbl) ==
  UNION { { tbl[b][i].peerID : i \in 1..Len(tbl[b]) } : b \in DOMAIN tbl }

\* The console line pushBucket prints for `peer`.
pushBucketLine(tbl, self, peer) ==
  IF peer.peerID = NoID THEN Line("Invalid peer object or missing peerID", NoID)
  ELSE
    LET bucket == tbl[getBucketIndex(self, peer.peerID)]
    IN  IF Len(bucket) = 0 THEN Line("Added peer", peer.peerID)
        ELSE IF comparePeerDistance(self, bucket[1], peer)
             THEN Line("Replacing peer", bucket[1].peerID)
             ELSE Line("No update", peer.peerID)

\* Upsert that also starts the missed count of the peer at 0.
UpsertCounting(st, self, peer, now) ==
  LET p == IF peer.lastSeen = Undef THEN [peer EXCEPT !.lastSeen = now]
           ELSE peer
      after == pushBucket(st.tbl, self.peerID, peer, now)
  IN  [st EXCEPT
         !.tbl = after,
         !.missed = MapPut(@, peer.peerID, 0),
         !.log = Append(@, pushBucketLine(st.tbl, self.peerID, p)),
         !.silent = [id \in PeerIDsOf(after) |->
                       IF id \in DOMAIN @ THEN @[id] ELSE 0]]

\* routingTable.pushBucket(peer) by a handler of the process `self`.
Upsert(st, self, peer, now) ==
  LET p == IF peer.lastSeen = Undef THEN [peer EXCEPT !.lastSeen = now]
           ELSE peer
      after == pushBucket(st.tbl, self.peerID, peer, now)
  IN  [st EXCEPT
         !.tbl = after,
         !.log = Append(@, pushBucketLine(st.tbl, self.peerID, p)),
         !.silent = [id \in PeerIDsOf(after) |->
                       IF id \in DOMAIN @ THEN @[id] ELSE 0]]

\* The loop of handleHeartbeatResponse over one bucket.
RECURSIVE TouchBucket(_, _, _)
TouchBucket(bucket, peerID, now) ==
  IF bucket = <<>> THEN <<>>
  ELSE <<IF bucket[1].peerID = peerID
         THEN [bucket[1] EXCEPT !.lastSeen = now]
         ELSE bucket[1]>> \o TouchBucket(Tail(bucket), peerID, now)

\* handleHeartbeatResponse that leaves the missed count as it is.
handleHeartbeatResponseNoReset(st, peerID, now) ==
  [st EXCEPT
     !.tbl = [b \in DOMAIN st.tbl |-> TouchBucket(st.tbl[b], peerID, now)],
     !.log = Append(@, Line("Received heartbeat response", peerID)),
     !.silent = IF peerID \in DOMAIN @ THEN MapPut(@, peerID, 0) ELSE @,
     !.responded = @ \cup {peerID}]

\* handleHeartbeatResponse that puts the peer that answered in the table.
handleHeartbeatResponseInsert(st, peerID, now) ==
  [st EXCEPT
     !.missed = MapPut(@, peerID, 0),
     !.tbl = pushBucket(@, MyID(1),
                        [peerID |-> peerID, ip |-> LocalIP, port |-> BasePort,
                         senderName |-> NoName, lastSeen |-> now], now),
     !.log = Append(@, Line("Received heartbeat response", peerID)),
     !.silent = IF peerID \in DOMAIN @ THEN MapPut(@, peerID, 0) ELSE @,
     !.responded = @ \cup {peerID}]

\* handleHeartbeatResponse that starts the map afresh.
handleHeartbeatResponseClearing(st, peerID, now) ==
  [st EXCEPT
     !.missed = MapPut(EmptyMap, peerID, 0),
     !.tbl = [b \in DOMAIN st.tbl |-> TouchBucket(st.tbl[b], peerID, now)],
     !.log = Append(@, Line("Received heartbeat response", peerID)),
     !.silent = IF peerID \in DOMAIN @ THEN MapPut(@, peerID, 0) ELSE @,
     !.responded = @ \cup {peerID}]

\* Heartbeat.handleHeartbeatResponse(peerID)
handleHeartbeatResponse(st, peerID, now) ==
  [st EXCEPT
     !.missed = MapPut(@, peerID, 0),
     !.tbl = [b \in DOMAIN st.tbl |-> TouchBucket(st.tbl[b], peerID, now)],
     !.log = Append(@, Line("Received heartbeat response", peerID)),
     !.silent = IF peerID \in DOMAIN @ THEN MapPut(@, peerID, 0) ELSE @,
     !.responded = @ \cup {peerID}]

\* The body of the heartbeat interval's peers.forEach, for the peers that
\* getAllPeers returned when the cycle began.
RECURSIVE CycleOver(_, _, _)
CycleOver(st, self, peers) ==
  IF peers = <<>> THEN st
  ELSE
    LET peer == peers[1]
        id == peer.peerID
        count == IF id \in DOMAIN st.missed THEN st.missed[id] + 1 ELSE 1
        heartbeatMsg == createHeartbeatMessage(self.senderName, self.ip,
                                               self.port, self.peerID)
        counted ==
          [st EXCEPT
             !.sent = Append(@, Connect(peer.ip, peer.port, heartbeatMsg)),
             !.missed = MapPut(@, id, count),
             !.silent = MapPut(@, id,
                               IF id \in DOMAIN @ THEN @[id] + 1 ELSE 1)]
        done ==
          IF count >= MissLimit
          THEN [counted EXCEPT
                  !.log = Append(@, Line("Removing peer", id)),
                  !.tbl = removePeer(@, self.peerID, id),
                  !.missed = MapDelete(@, id),
                  !.silent = MapDelete(@, id)]
          ELSE counted
    IN  CycleOver(done, self, Tail(peers))

\* heartbeatCycle that visits the peers of the table twice.
heartbeatCycleTwice(st, self) ==
  CycleOver(CycleOver([st EXCEPT !.log = <<Line("Heartbeat cycle", NoID)>>,
                                 !.responded = {}],
                      self, getAllPeers(st.tbl)),
            self, getAllPeers(st.tbl))

\* One run of the interval callback of startHeartbeat.
heartbeatCycle(st, self) ==
  CycleOver([st EXCEPT !.log = <<Line("Heartbeat cycle", NoID)>>,
                       !.responded = {}],
            self, getAllPeers(st.tbl))

\* remoteAddress.replace("::ffff:", "")
StripMapped(address) ==
  IF address = MappedLocalIP THEN LocalIP ELSE address

\* senderInfoOf that does not read the attached self-description.
senderInfoOfSocket(message, socket, now) ==
  LET remoteIP == StripMapped(socket.remoteAddress)
  IN  [ip |-> remoteIP,
       port |-> socket.remotePort,
       peerID |-> IF Len(message.peers) > 0
                     /\ message.peers[1].peerID # NoID
                  THEN message.peers[1].peerID
                  ELSE getPeerID(remoteIP, socket.remotePort),
       senderName |-> message.senderName,
       lastSeen |-> now]

\* The record the Hello branch of handleIncomingConnection builds.
senderInfoOf(message, socket, now) ==
  LET si == message.selfInfo
      remoteIP == StripMapped(socket.remoteAddress)
  IN  [ip |-> IF si.present /\ si.ip # "" THEN si.ip ELSE remoteIP,
       port |-> IF si.present /\ si.port # Undef /\ si.port # 0
                THEN si.port ELSE socket.remotePort,
       peerID |-> IF si.present /\ si.peerID # NoID THEN si.peerID
                  ELSE IF Len(message.peers) > 0
                          /\ message.peers[1].peerID # NoID
                       THEN message.peers[1].peerID
                       ELSE getPeerID(remoteIP, socket.remotePort),
       senderName |-> message.senderName,
       lastSeen |-> now]

\* The "data" handler of an accepted socket, giving pushBucket the first
\* peer of whatever message decodes.
handleIncomingDataMerging(st, self, socket, data, now) ==
  LET message == decodeMessage(data)
      noted == [st EXCEPT !.log = Append(@, Line(
                            "Unknown message type received.", NoID))]
  IN  IF ~message.ok
      THEN [st EXCEPT !.log = Append(@, Line("Error handling incoming data",
                                             NoID))]
      ELSE IF Len(message.peers) = 0 THEN noted
      ELSE Upsert(noted, self,
                  [peerID |-> message.peers[1].peerID,
                   ip |-> message.peers[1].ip, port |-> message.peers[1].port,
                   senderName |-> NoName, lastSeen |-> now],
                  now)

\* The "data" handler of an accepted socket, answering what it cannot
\* decode with a Welcome.
handleIncomingDataAnswering(st, self, socket, data, now) ==
  IF decodeMessage(data).ok THEN st
  ELSE [st EXCEPT
          !.log = Append(@, Line("Error handling incoming data", NoID)),
          !.sent = Append(@, Write(socket.remoteAddress, socket.remotePort,
                                   createWelcomeMessage(
                                     self.senderName,
                                     getAllPeers(st.tbl))))]

\* The "data" handler of handleIncomingConnection.
handleIncomingData(st, self, socket, data, now) ==
  LET message == decodeMessage(data)
  IN  IF ~message.ok
      THEN [st EXCEPT !.log = Append(@, Line("Error handling incoming data",
                                             NoID))]
      ELSE IF message.messageType = HELLO
      THEN
        LET senderInfo == senderInfoOf(message, socket, now)
            added == Upsert([st EXCEPT
                               !.log = Append(@, Line("Adding connecting peer",
                                                      senderInfo.peerID))],
                            self, senderInfo, now)
            welcomeMsg == createWelcomeMessage(self.senderName,
                                               getAllPeers(added.tbl))
        IN  [added EXCEPT
               !.sent = Append(@, Write(socket.remoteAddress,
                                        socket.remotePort, welcomeMsg))]
      ELSE IF message.messageType = HEARTBEAT
      THEN
        LET credited ==
              IF Len(message.peers) > 0 /\ message.peers[1].peerID # NoID
              THEN handleHeartbeatResponse(st, message.peers[1].peerID, now)
              ELSE st
            heartbeatResponse ==
              createHeartbeatResponse(self.senderName, self.ip, self.port,
                                      self.peerID)
        IN  [credited EXCEPT
               !.sent = Append(@, Write(socket.remoteAddress,
                                        socket.remotePort,
                                        heartbeatResponse))]
      ELSE IF message.messageType = HEARTBEAT_RESPONSE
      THEN
        IF Len(message.peers) > 0 /\ message.peers[1].peerID # NoID
        THEN handleHeartbeatResponse(st, message.peers[1].peerID, now)
        ELSE st
      ELSE [st EXCEPT !.log = Append(@, Line("Unknown message type received.",
                                             NoID))]

\* A decoded peer entry, as the object refreshBuckets is given.
DecodedPeer(entry) ==
  [peerID |-> entry.peerID, ip |-> entry.ip, port |-> entry.port,
   senderName |-> NoName, lastSeen |-> Undef]

\* refreshBuckets without the filter on the local peerID.
RECURSIVE refreshBucketsAll(_, _, _, _)
refreshBucketsAll(st, self, peers, now) ==
  IF peers = <<>> THEN st
  ELSE
    LET peer == DecodedPeer(peers[1])
    IN  refreshBucketsAll(
          Upsert(st, self,
                 IF peer.lastSeen = Undef \/ peer.lastSeen = 0
                 THEN [peer EXCEPT !.lastSeen = now] ELSE peer,
                 now),
          self, Tail(peers), now)

\* refreshBuckets that merges nothing.
refreshBucketsNone(st, self, peers, now) == st

RECURSIVE refreshBuckets(_, _, _, _)
refreshBuckets(st, self, peers, now) ==
  IF peers = <<>> THEN st
  ELSE
    LET peer == DecodedPeer(peers[1])
    IN  IF peer.peerID = self.peerID
        THEN refreshBuckets(st, self, Tail(peers), now)
        ELSE refreshBuckets(
               Upsert(st, self,
                      IF peer.lastSeen = Undef \/ peer.lastSeen = 0
                      THEN [peer EXCEPT !.lastSeen = now] ELSE peer,
                      now),
               self, Tail(peers), now)

RECURSIVE ConnectAll(_, _, _)
ConnectAll(targets, data, acc) ==
  IF targets = <<>> THEN acc
  ELSE ConnectAll(Tail(targets), data,
                  Append(acc, Connect(targets[1].ip, targets[1].port, data)))

\* sendHelloMessages(): one connection to every peer of the table, each to
\* carry a Hello that lists those peers.
sendHelloMessages(st, self) ==
  LET peers == getAllPeers(st.tbl)
      helloMessage == createHelloMessage(self.senderName, peers, self)
  IN  [st EXCEPT !.sent = ConnectAll(peers, helloMessage, @)]

\* The "data" handler of joinNetwork's socket.
handleJoinData(st, self, data, now) ==
  LET message == decodeMessage(data)
  IN  IF ~message.ok
      THEN [st EXCEPT !.log = Append(@, Line("Error processing message",
                                             NoID))]
      ELSE IF message.messageType = WELCOME
      THEN sendHelloMessages(
             refreshBuckets([st EXCEPT
                               !.log = Append(@, Line("Processing Welcome message", NoID))],
                            self, message.peers, now),
             self)
      ELSE st

\* The "data" handler of sendHeartbeatToPeer, writing back what it reads.
handleHeartbeatDataEcho(st, data, now) ==
  [st EXCEPT !.sent = Append(@, Write(LocalIP, BasePort + 1, data))]

\* The "data" handler of sendHeartbeatToPeer's socket.
handleHeartbeatData(st, data, now) ==
  LET message == decodeMessage(data)
  IN  IF ~message.ok
      THEN [st EXCEPT !.log = Append(@, Line("Error processing heartbeat response", NoID))]
      ELSE IF message.messageType = HEARTBEAT_RESPONSE
      THEN handleHeartbeatResponse(
             st,
             IF Len(message.peers) > 0 THEN message.peers[1].peerID ELSE NoID,
             now)
      ELSE st

\* The "data" handler of a flood socket that opens one more connection.
handleFloodDataAgain(st, data) ==
  [st EXCEPT !.log = Append(@, Line("Received Welcome or Unknown", NoID)),
             !.sent = Append(@, Connect(LocalIP, BasePort + 1, data))]

\* The "data" handler of a socket of sendHelloMessages: it prints and
\* saves the routing table and changes nothing.
handleFloodData(st, data) ==
  LET message == decodeMessage(data)
  IN  IF ~message.ok
      THEN [st EXCEPT !.log = Append(@, Line("Error processing response", NoID))]
      ELSE [st EXCEPT !.log = Append(@, Line("Received Welcome or Unknown", NoID))]
(***************************************************************************)
(* Spec: process 1 and everything that can reach it.  Its handlers run on  *)
(* the messages the other peers send to it, in any order.                  *)
(***************************************************************************)
Local == 1
Senders == Procs \ {Local}
\* The peer process 1 was given as its target.
Bootstrap == 2

\* The entry a peer's own record takes in a message.
WireEntry(n) ==
  [ip |-> LocalIP, port |-> ListenPort(n), peerID |-> MyID(n)]

\* An accepted socket: the listener is dual-stack, the peer connected from
\* an ephemeral port.
InboundSocket ==
  [remoteAddress |-> MappedLocalIP, remotePort |-> EphemeralPort]

\* The Hello joinNetwork of peer s writes before s knows any peer.
HelloOf(s) == createHelloMessage(PeerName(s), <<>>, SelfInfoOf(s))

\* The record process n keeps of process m after m's Hello at tick `seen`.
RecordOf(m, seen) ==
  [ip |-> LocalIP, port |-> ListenPort(m), peerID |-> MyID(m),
   senderName |-> PeerName(m), lastSeen |-> seen]

\* The tables peer s can hold: any of the other peers, one to a bucket.
TablesOf(s) ==
  { [b \in 0..(NumBuckets - 1) |->
       IF \E n \in S : getBucketIndex(MyID(s), MyID(n)) = b
       THEN <<RecordOf(CHOOSE n \in S :
                         getBucketIndex(MyID(s), MyID(n)) = b, 0)>>
       ELSE <<>>] :
      S \in { T \in SUBSET (Procs \ {s}) :
                \A m, n \in T :
                  m # n => getBucketIndex(MyID(s), MyID(m))
                             # getBucketIndex(MyID(s), MyID(n)) } }

\* The peer lists of the Welcome messages the bootstrap peer can write.
WelcomeLists == { getAllPeers(t) : t \in TablesOf(Bootstrap) }

NoPresented == [ever |-> <<>>, since |-> <<>>]

Init ==
  /\ kBuckets = [n \in Procs |-> EmptyTable]
  /\ missedCounts = [n \in Procs |-> EmptyMap]
  /\ timer = [n \in Procs |-> 0]
  /\ log = <<>>
  /\ sent = <<>>
  /\ net = {}
  /\ launched = {}
  /\ joined = {}
  /\ presented = [b \in 0..(NumBuckets - 1) |-> NoPresented]
  /\ silent = [n \in Procs |-> EmptyMap]
  /\ responded = [n \in Procs |-> {}]

\* The state process n is left in by a handler that ended in `st`.
Commit(n, st) ==
  \E end \in {st} :
    /\ kBuckets' = [kBuckets EXCEPT ![n] = end.tbl]
    /\ missedCounts' = [missedCounts EXCEPT ![n] = end.missed]
    /\ silent' = [silent EXCEPT ![n] = end.silent]
    /\ responded' = [responded EXCEPT ![n] = end.responded]
    /\ log' = end.log
    /\ sent' = end.sent

\* timer >= 0xffffffff
AtTimerWrap(t) ==
  \/ t \div WordRange > WordMax
  \/ t \div WordRange = WordMax /\ t % WordRange >= WordMax

\* Singleton.timerRun
timerRun(n) ==
  /\ timer[n] < MaxTick
  /\ IF AtTimerWrap(timer[n] + 1)
     THEN \E t \in 0..(TimerStartRange - 1) :
            timer' = [timer EXCEPT ![n] = t]
     ELSE timer' = [timer EXCEPT ![n] = timer[n] + 1]
  /\ log' = <<>>
  /\ sent' = <<>>
  /\ UNCHANGED <<kBuckets, missedCounts, net, launched, joined, presented,
                 silent, responded>>

\* A Hello of peer s arrives on the listening socket.
RecvHelloOf(s) ==
  /\ Commit(Local, handleIncomingData(NodeState(Local), SelfInfoOf(Local),
                                      InboundSocket, HelloOf(s),
                                      timer[Local]))
  /\ UNCHANGED <<timer, net, launched, joined, presented>>

RecvHello == \E s \in Senders : RecvHelloOf(s)

\* A Heartbeat of peer s arrives on the listening socket.
RecvHeartbeatOf(s) ==
  /\ Commit(Local,
            handleIncomingData(
              NodeState(Local), SelfInfoOf(Local), InboundSocket,
              createHeartbeatMessage(PeerName(s), LocalIP, ListenPort(s),
                                     MyID(s)),
              timer[Local]))
  /\ UNCHANGED <<timer, net, launched, joined, presented>>

RecvHeartbeat == \E s \in Senders : RecvHeartbeatOf(s)

\* A HeartbeatResponse of peer s arrives on the listening socket.
RecvHeartbeatResponseOf(s) ==
  /\ Commit(Local,
            handleIncomingData(
              NodeState(Local), SelfInfoOf(Local), InboundSocket,
              createHeartbeatResponse(PeerName(s), LocalIP, ListenPort(s),
                                      MyID(s)),
              timer[Local]))
  /\ UNCHANGED <<timer, net, launched, joined, presented>>

RecvHeartbeatResponse == \E s \in Senders : RecvHeartbeatResponseOf(s)

\* The response of peer s on the socket sendHeartbeatToPeer opened to it.
HeartbeatReplyOf(s) ==
  /\ hasPeer(kBuckets[Local], MyID(s))
  /\ Commit(Local,
            handleHeartbeatData(
              NodeState(Local),
              createHeartbeatResponse(PeerName(s), LocalIP, ListenPort(s),
                                      MyID(s)),
              timer[Local]))
  /\ UNCHANGED <<timer, net, launched, joined, presented>>

HeartbeatReply == \E s \in Senders : HeartbeatReplyOf(s)

\* The interval callback of startHeartbeat runs.
HeartbeatCycle ==
  /\ Commit(Local, heartbeatCycle(NodeState(Local), SelfInfoOf(Local)))
  /\ UNCHANGED <<timer, net, launched, joined, presented>>

\* The Welcome of the bootstrap peer on the socket joinNetwork opened.
JoinWelcomeOf(peers) ==
  /\ Local \notin joined
  /\ joined' = joined \cup {Local}
  /\ Commit(Local,
            handleJoinData(NodeState(Local), SelfInfoOf(Local),
                           createWelcomeMessage(PeerName(Bootstrap), peers),
                           timer[Local]))
  /\ UNCHANGED <<timer, net, launched, presented>>

JoinWelcome == \E peers \in WelcomeLists : JoinWelcomeOf(peers)

Next ==
  \/ timerRun(Local)
  \/ RecvHello
  \/ RecvHeartbeat
  \/ RecvHeartbeatResponse
  \/ HeartbeatReply
  \/ HeartbeatCycle
  \/ JoinWelcome

Spec == Init /\ [][Next]_vars

(***************************************************************************)
(* SpecTable: the routing table of process 1 under any calls of            *)
(* pushBucket and removePeer.                                              *)
(***************************************************************************)
\* The objects a caller can give pushBucket: a record of any process, with
\* or without a name, with a lastSeen of its own or none, and an object
\* that has no peerID.
Candidates ==
  UNION { { [ip |-> LocalIP, port |-> ListenPort(n), peerID |-> MyID(n),
             senderName |-> name, lastSeen |-> seen] :
              name \in {PeerName(n), NoName},
              seen \in (0..MaxTick) \cup {Undef} } : n \in Procs }
    \cup { [ip |-> LocalIP, port |-> Undef, peerID |-> NoID,
            senderName |-> NoName, lastSeen |-> Undef] }

\* What the history keeps of a candidate.
KeyOf(peer) == [peerID |-> peer.peerID, lastSeen |-> peer.lastSeen]

\* Candidate c is nearer to `self` than d, or as near and seen later.
Better(self, c, d) ==
  \/ Distance(self, c.peerID) < Distance(self, d.peerID)
  \/ /\ Distance(self, c.peerID) = Distance(self, d.peerID)
     /\ c.lastSeen > d.lastSeen

\* The best of the candidates seen so far, `best`, and of c.
BestOf(self, best, c) ==
  IF best = <<>> \/ Better(self, c, best[1]) THEN <<c>> ELSE best

CallPushBucketOf(peer) ==
  LET self == MyID(Local)
      now == timer[Local]
      p == IF peer.lastSeen = Undef THEN [peer EXCEPT !.lastSeen = now]
           ELSE peer
      b == getBucketIndex(self, peer.peerID)
  IN  /\ kBuckets' = [kBuckets EXCEPT
                        ![Local] = pushBucket(@, self, peer, now)]
      /\ log' = <<pushBucketLine(kBuckets[Local], self, p)>>
      /\ presented' =
           IF peer.peerID = NoID THEN presented
           ELSE [presented EXCEPT
                   ![b] = [ever |-> BestOf(self, @.ever, KeyOf(p)),
                           since |-> BestOf(self, @.since, KeyOf(p))]]
      /\ UNCHANGED <<missedCounts, timer, sent, net, joined, launched,
                     silent, responded>>

CallPushBucket == \E peer \in Candidates : CallPushBucketOf(peer)

CallRemovePeerOf(id) ==
  LET after == removePeer(kBuckets[Local], MyID(Local), id)
  IN  /\ kBuckets' = [kBuckets EXCEPT ![Local] = after]
      /\ log' = <<Line("Removed peer", id)>>
      /\ presented' =
           [b \in DOMAIN presented |->
              IF after[b] = <<>> THEN [presented[b] EXCEPT !.since = <<>>]
              ELSE presented[b]]
      /\ UNCHANGED <<missedCounts, timer, sent, net, joined, launched,
                     silent, responded>>

CallRemovePeer == \E n \in Procs : CallRemovePeerOf(MyID(n))

\* getClosestPeers(targetID): the peers of all buckets sorted, by a stable
\* sort, on their distance to this.peerID, and the first of them.
getClosestPeers(tbl, self, targetID) ==
  LET allPeers == getAllPeers(tbl)
      first == CHOOSE i \in 1..Len(allPeers) :
                 \A j \in 1..Len(allPeers) :
                   \/ Distance(self, allPeers[i].peerID)
                        < Distance(self, allPeers[j].peerID)
                   \/ /\ Distance(self, allPeers[i].peerID)
                           = Distance(self, allPeers[j].peerID)
                      /\ i <= j
  IN  IF allPeers = <<>> THEN <<>> ELSE <<allPeers[first]>>

\* A caller asks for the peer closest to the identity of a process.
CallGetClosestPeers ==
  \E n \in Procs :
    /\ log' = <<Line("Closest peer to", MyID(n))>>
              \o [i \in 1..Len(getClosestPeers(kBuckets[Local],
                                                MyID(Local), MyID(n))) |->
                    Line("Closest peer",
                         getClosestPeers(kBuckets[Local], MyID(Local),
                                         MyID(n))[i].peerID)]
    /\ UNCHANGED <<kBuckets, missedCounts, timer, sent, net, joined,
                   launched, presented, silent, responded>>

NextTable ==
  \/ CallPushBucket
  \/ CallRemovePeer
  \/ CallGetClosestPeers

SpecTable == Init /\ [][NextTable]_vars

(***************************************************************************)
(* SpecNet: processes 1..NumProcs, each free to join through another; the  *)
(* messages are the ones the processes write.                              *)
(***************************************************************************)
NetProcs == 1..NumProcs

\* A connection `from` opened to `to`, and the data on its way: the
\* request to the listener, or the reply to the opener.
Conn(from, to, kind, dir, data) ==
  [from |-> from, to |-> to, kind |-> kind, dir |-> dir, data |-> data]

\* The process that listens at ip:port; 0 when there is none.
ListenerOf(ip, port) ==
  IF ip = LocalIP /\ (port - BasePort) \in NetProcs THEN port - BasePort
  ELSE 0

\* The connections process n opened by the connects of `out`.
Opened(n, out, kind) ==
  { Conn(n, ListenerOf(out[i].ip, out[i].port), kind, "request",
         out[i].data) :
      i \in { j \in 1..Len(out) :
                /\ out[j].kind = "connect"
                /\ ListenerOf(out[j].ip, out[j].port) # 0 } }

\* What the listener wrote back on connection c.
Replies(c, out) ==
  { [c EXCEPT !.dir = "reply", !.data = out[i].data] :
      i \in { j \in 1..Len(out) : out[j].kind = "write" } }

\* The callback of server.listen of a process started without a target:
\* it sets selfInfo and the empty routing table.
ListenOf(n) ==
  /\ n \notin launched
  /\ launched' = launched \cup {n}
  /\ log' = <<Line("This peer address is", MyID(n))>>
  /\ sent' = <<>>
  /\ UNCHANGED <<kBuckets, missedCounts, timer, net, joined, presented,
                 silent, responded>>

Listen == \E n \in NetProcs : ListenOf(n)

\* The callback of server.listen of process a started with the target b:
\* joinNetwork(target, selfInfo) connects, and its connect callback
\* writes the Hello; no process listening at the target is an "error"
\* event.
ListenAndJoinOf(a, b) ==
  LET helloMsg == createHelloMessage(PeerName(a), getAllPeers(kBuckets[a]),
                                     SelfInfoOf(a))
  IN  /\ a \notin launched
      /\ launched' = launched \cup {a}
      /\ joined' = joined \cup {a}
      /\ IF b \in launched
         THEN /\ net' = net \cup {Conn(a, b, "join", "request", helloMsg)}
              /\ log' = <<Line("Connected to target peer", MyID(b))>>
              /\ sent' = <<Connect(LocalIP, ListenPort(b), helloMsg)>>
         ELSE /\ net' = net
              /\ log' = <<Line("Error joining network", MyID(b))>>
              /\ sent' = <<>>
      /\ UNCHANGED <<kBuckets, missedCounts, timer, presented, silent,
                     responded>>

ListenAndJoin ==
  \E a \in NetProcs : \E b \in NetProcs \ {a} : ListenAndJoinOf(a, b)

\* The "data" event of the socket the listener accepted for c.
IncomingOf(c) ==
  LET st == handleIncomingData(NodeState(c.to), SelfInfoOf(c.to),
                               InboundSocket, c.data, timer[c.to])
  IN  /\ c.dir = "request"
      /\ Commit(c.to, st)
      /\ net' = (net \ {c}) \cup Replies(c, st.sent)
      /\ UNCHANGED <<timer, joined, launched, presented>>

Incoming == \E c \in net : IncomingOf(c)

\* The "data" event of joinNetwork's socket.
JoinResponseOf(c) ==
  LET st == handleJoinData(NodeState(c.from), SelfInfoOf(c.from), c.data,
                           timer[c.from])
  IN  /\ c.dir = "reply" /\ c.kind = "join"
      /\ Commit(c.from, st)
      /\ net' = (net \ {c}) \cup Opened(c.from, st.sent, "flood")
      /\ UNCHANGED <<timer, joined, launched, presented>>

JoinResponse == \E c \in net : JoinResponseOf(c)

\* The "data" event of a socket of sendHelloMessages.
FloodResponseOf(c) ==
  /\ c.dir = "reply" /\ c.kind = "flood"
  /\ Commit(c.from, handleFloodData(NodeState(c.from), c.data))
  /\ net' = net \ {c}
  /\ UNCHANGED <<timer, joined, launched, presented>>

FloodResponse == \E c \in net : FloodResponseOf(c)

\* The "error" or "close" event of a socket whose data never came.
ConnectionLost ==
  \E c \in net :
    /\ net' = net \ {c}
    /\ log' = <<Line("Connection closed", NoID)>>
    /\ sent' = <<>>
    /\ UNCHANGED <<kBuckets, missedCounts, timer, joined, launched,
                   presented, silent, responded>>

NextNet ==
  \/ Listen
  \/ ListenAndJoin
  \/ Incoming
  \/ JoinResponse
  \/ FloodResponse
  \/ ConnectionLost

SpecNet == Init /\ [][NextNet]_vars

(***************************************************************************)
(* The heartbeat laws, under Spec.                                         *)
(***************************************************************************)
\* C1: eviction law.  A heartbeat cycle that visits a peer of the table for
\* which no response was processed during the two cycles before it removes
\* the peer from the table and from the missed-count map; a cycle that is
\* the first or the second such cycle for the peer leaves it in the table.
EvictionLaw ==
  [][HeartbeatCycle =>
       \A id \in PeerIDsOf(kBuckets[Local]) :
         IF silent[Local][id] >= MissLimit - 1
         THEN /\ ~hasPeer(kBuckets'[Local], id)
              /\ id \notin DOMAIN missedCounts'[Local]
         ELSE hasPeer(kBuckets'[Local], id)]_vars

\* C2: reset law.  A handler that processes a response of peer p, on the
\* listening socket or on the heartbeat socket, leaves p's missed count at
\* 0; the count of a peer whose response was processed since the last
\* cycle is 0 until the next cycle, and that cycle does not evict the peer.
ResetLaw ==
  [][/\ \A i \in 1..Len(log') :
          log'[i].line = "Received heartbeat response"
            => /\ log'[i].id \in responded'[Local]
               /\ log'[i].id \in DOMAIN missedCounts'[Local]
               /\ missedCounts'[Local][log'[i].id] = 0
     /\ \A id \in responded[Local] :
          /\ id \in DOMAIN missedCounts[Local]
          /\ missedCounts[Local][id] = 0
          /\ (/\ hasPeer(kBuckets[Local], id)
              /\ log' # <<>>
              /\ log'[1] = Line("Heartbeat cycle", NoID)
              /\ HeartbeatCycle)
               => /\ hasPeer(kBuckets'[Local], id)
                  /\ missedCounts'[Local][id] = 1]_vars

\* A response of a peer of the table has been processed: its count is 0.
ResetLawWitness ==
  \E id \in responded[Local] :
    /\ hasPeer(kBuckets[Local], id)
    /\ missedCounts[Local][id] = 0
    /\ log = <<Line("Received heartbeat response", id)>>

\* C3: the missed-count map has an entry only for the identities that are
\* in the routing table.
MissedOnlyForTablePeers ==
  \A id \in DOMAIN missedCounts[Local] : hasPeer(kBuckets[Local], id)

(***************************************************************************)
(* The routing table laws.                                                 *)
(***************************************************************************)
\* C4: tie-break law.  pushBucket of a candidate with distance d2 and
\* lastSeen t2 on a bucket whose occupant has distance d1 and lastSeen t1
\* gives the table with the candidate in the occupant's place if d2 < d1,
\* or d2 = d1 and t2 > t1, and the table as it was in every other case.
TieBreakLaw ==
  \A peer \in Candidates :
    LET self == MyID(Local)
        tbl == kBuckets[Local]
        b == getBucketIndex(self, peer.peerID)
        p == IF peer.lastSeen = Undef
             THEN [peer EXCEPT !.lastSeen = timer[Local]] ELSE peer
        d1 == Distance(self, tbl[b][1].peerID)
        d2 == Distance(self, p.peerID)
        t1 == tbl[b][1].lastSeen
        t2 == p.lastSeen
    IN  (peer.peerID # NoID /\ tbl[b] # <<>>)
          => pushBucket(tbl, self, peer, timer[Local])
               = IF d2 < d1 \/ (d2 = d1 /\ t2 > t1)
                 THEN [tbl EXCEPT ![b] = <<p>>]
                 ELSE tbl

\* A candidate with the occupant's identity, seen no later than the
\* occupant, was given to pushBucket, and the occupant stayed.
TieBreakLawWitness ==
  \E b \in DOMAIN kBuckets[Local] :
    /\ Len(kBuckets[Local][b]) = 1
    /\ log = <<Line("No update", kBuckets[Local][b][1].peerID)>>
    /\ kBuckets[Local][b][1].lastSeen = MaxTick

SixteenBucketsOfOne ==
  /\ DOMAIN kBuckets[Local] = 0..15
  /\ \A b \in DOMAIN kBuckets[Local] : Len(kBuckets[Local][b]) \in {0, 1}

\* A Hello replaced the occupant of a bucket, which holds one record.
SixteenBucketsOfOneWitness ==
  /\ Len(log) = 2
  /\ log[2].line = "Replacing peer"
  /\ \E b \in DOMAIN kBuckets[Local] :
       /\ Len(kBuckets[Local][b]) = 1
       /\ kBuckets[Local][b][1].peerID = log[1].id
       /\ kBuckets[Local][b][1].peerID # log[2].id

\* C7: no identity is in two places of the table, every record is in the
\* bucket getBucketIndex gives its identity, and hasPeer(id) holds exactly
\* when that bucket holds a record of identity id.
OneBucketPerIdentity ==
  LET self == MyID(Local)
      tbl == kBuckets[Local]
      Places == { <<b, i>> \in (DOMAIN tbl) \X (1..NumPeers) :
                    i <= Len(tbl[b]) }
  IN  /\ \A x, y \in Places :
           x # y => tbl[x[1]][x[2]].peerID # tbl[y[1]][y[2]].peerID
      /\ \A x \in Places :
           getBucketIndex(self, tbl[x[1]][x[2]].peerID) = x[1]
      /\ \A id \in AllIDs :
           hasPeer(tbl, id)
             <=> \E i \in 1..Len(tbl[getBucketIndex(self, id)]) :
                   tbl[getBucketIndex(self, id)][i].peerID = id

\* Of two peers of one bucket the table holds one, after a Hello of each.
OneBucketPerIdentityWitness ==
  \E s, t \in Senders :
    /\ s # t
    /\ getBucketIndex(MyID(Local), MyID(s))
         = getBucketIndex(MyID(Local), MyID(t))
    /\ hasPeer(kBuckets[Local], MyID(s))
    /\ ~hasPeer(kBuckets[Local], MyID(t))
    /\ Len(log) = 2
    /\ log[2] = Line("No update", MyID(t))

(***************************************************************************)
(* The bootstrap exchange.                                                 *)
(***************************************************************************)
\* The peer lists of the messages the last handler wrote on its socket.
WrittenPeers(out) ==
  [i \in 1..Len(out) |-> decodeMessage(out[i].data).peers]

\* The entries a table's records take in a message, in bucket order.
WireEntriesOf(tbl) ==
  LET all == getAllPeers(tbl)
  IN  [i \in 1..Len(all) |->
         [ip |-> all[i].ip, port |-> all[i].port, peerID |-> all[i].peerID]]

\* C8, as the specification states it: the Welcome written in reply to a
\* Hello lists the peers of the table after the sender's upsert, and the
\* sender is one of them.
WelcomeListsTableAndSender ==
  \A s \in Senders :
    (Len(log) > 0 /\ log[1] = Line("Adding connecting peer", MyID(s)))
      => LET welcome == decodeMessage(sent[1].data)
         IN  /\ Len(sent) = 1
             /\ sent[1].kind = "write"
             /\ welcome.messageType = WELCOME
             /\ welcome.peers = WireEntriesOf(kBuckets[Local])
             /\ \E i \in 1..Len(welcome.peers) :
                  welcome.peers[i] = WireEntry(s)

\* C8: the Welcome written in reply to a Hello lists the peers of the table
\* after the sender's upsert; the sender is one of them unless pushBucket
\* made no update because the sender's bucket holds another peer.
WelcomeListsTable ==
  \A s \in Senders :
    (Len(log) > 0 /\ log[1] = Line("Adding connecting peer", MyID(s)))
      => LET welcome == decodeMessage(sent[1].data)
             bucket == kBuckets[Local][getBucketIndex(MyID(Local), MyID(s))]
             listed == \E i \in 1..Len(welcome.peers) :
                         welcome.peers[i] = WireEntry(s)
         IN  /\ Len(sent) = 1
             /\ sent[1].kind = "write"
             /\ welcome.messageType = WELCOME
             /\ welcome.peers = WireEntriesOf(kBuckets[Local])
             /\ Len(log) = 2
             /\ ~listed <=> /\ log[2] = Line("No update", MyID(s))
                            /\ bucket[1].peerID # MyID(s)

\* A Hello of a peer that lost the tie-break was answered: the Welcome
\* lists the occupant of the bucket and not the sender.
WelcomeListsTableWitness ==
  \E s \in Senders :
    /\ Len(log) = 2
    /\ log[1] = Line("Adding connecting peer", MyID(s))
    /\ log[2] = Line("No update", MyID(s))
    /\ ~hasPeer(kBuckets[Local], MyID(s))
    /\ Len(sent) = 1
    /\ WrittenPeers(sent)[1] = WireEntriesOf(kBuckets[Local])
    /\ Len(WrittenPeers(sent)[1]) = 1

\* The request on connection c is a Hello that carries the
\* self-description of the process that opened c.
HelloWithSelfInfo(c) ==
  /\ c.dir = "request"
  /\ decodeMessage(c.data).ok
  /\ decodeMessage(c.data).messageType = HELLO
  /\ decodeMessage(c.data).selfInfo = SelfInfoOf(c.from)

\* C9: bootstrap, receiver side.  When B, whose table is empty, handles a
\* Hello that carries A's self-description, B's table afterwards holds
\* A's record and nothing else, and B writes one reply, a Welcome whose
\* peer list is the one entry of A.
BootstrapReceiver ==
  [][\A c \in net :
       (/\ kBuckets[c.to] = EmptyTable
        /\ HelloWithSelfInfo(c)
        /\ IncomingOf(c))
         => /\ getAllPeers(kBuckets'[c.to])
                 = <<RecordOf(c.from, timer[c.to])>>
            /\ Len(sent') = 1
            /\ sent'[1].kind = "write"
            /\ decodeMessage(sent'[1].data).messageType = WELCOME
            /\ WrittenPeers(sent')[1] = <<WireEntry(c.from)>>
            /\ [c EXCEPT !.dir = "reply", !.data = sent'[1].data]
                 \in net']_vars

\* B has answered A's Hello: B's table holds A alone and the Welcome that
\* lists A alone is on its way to A.
BootstrapReceiverWitness ==
  \E c \in net :
    /\ c.dir = "reply"
    /\ c.kind = "join"
    /\ kBuckets[c.from] = EmptyTable
    /\ getAllPeers(kBuckets[c.to]) = <<RecordOf(c.from, timer[c.to])>>
    /\ decodeMessage(c.data).messageType = WELCOME
    /\ decodeMessage(c.data).peers = <<WireEntry(c.from)>>
    /\ log = <<Line("Adding connecting peer", MyID(c.from)),
               Line("Added peer", MyID(c.from))>>

\* A, with an empty table, receives on its joinNetwork socket the Welcome
\* that lists A alone: the reply of a B whose table was empty.
BootstrapWelcome(c) ==
  /\ c.dir = "reply"
  /\ c.kind = "join"
  /\ kBuckets[c.from] = EmptyTable
  /\ decodeMessage(c.data).ok
  /\ decodeMessage(c.data).messageType = WELCOME
  /\ decodeMessage(c.data).peers = <<WireEntry(c.from)>>

\* C10, as the specification states it: bootstrap, joiner side.  After A
\* has processed B's Welcome, A's table contains exactly one peer.
JoinerKnowsOnePeer ==
  [][\A c \in net :
       (BootstrapWelcome(c) /\ JoinResponseOf(c))
         => Len(getAllPeers(kBuckets'[c.from])) = 1]_vars

\* C10: bootstrap, joiner side.  After A has processed B's Welcome, A's
\* table is still empty, A has no missed count, and A opens no further
\* connection.
JoinerTableEmpty ==
  [][\A c \in net :
       (BootstrapWelcome(c) /\ JoinResponseOf(c))
         => /\ kBuckets'[c.from] = EmptyTable
            /\ missedCounts'[c.from] = missedCounts[c.from]
            /\ sent' = <<>>
            /\ net' = net \ {c}]_vars

\* A has processed the Welcome of a B that knows A alone: A's table is
\* empty while B's table holds A.
JoinerTableEmptyWitness ==
  \E a, b \in NetProcs :
    /\ a # b
    /\ log = <<Line("Processing Welcome message", NoID)>>
    /\ a \in joined
    /\ kBuckets[a] = EmptyTable
    /\ getAllPeers(kBuckets[b]) = <<RecordOf(a, timer[b])>>
    /\ \A n \in NetProcs \ {a, b} : n \notin launched
    /\ net = {}

(***************************************************************************)
(* The Welcome on the bootstrap connection.                                *)
(***************************************************************************)
\* The table after pushBucket of every entry of `entries` that does not
\* carry the identity `self`, each with lastSeen `now`, in list order.
RECURSIVE MergeListed(_, _, _, _)
MergeListed(tbl, self, entries, now) ==
  IF entries = <<>> THEN tbl
  ELSE MergeListed(
         IF entries[1].peerID = self THEN tbl
         ELSE pushBucket(tbl, self,
                         [ip |-> entries[1].ip, port |-> entries[1].port,
                          peerID |-> entries[1].peerID,
                          senderName |-> NoName, lastSeen |-> now],
                         now),
         self, Tail(entries), now)

\* The entries of a list that carry another identity than `self`.
OthersOf(entries, self) ==
  { i \in 1..Len(entries) : entries[i].peerID # self }

\* C11: processing a Welcome on the bootstrap connection gives pushBucket
\* every listed entry whose identity is not the local one, with lastSeen
\* the current tick, and no entry that carries the local identity: whatever
\* the table holds and whatever the Welcome lists, the table afterwards is
\* the table of those calls, one console line of pushBucket follows for
\* each of them, and the local identity is in no bucket.
WelcomeMerges ==
  Local \notin joined
    => \A peers \in WelcomeLists :
         LET end == handleJoinData(NodeState(Local), SelfInfoOf(Local),
                                   createWelcomeMessage(PeerName(Bootstrap),
                                                        peers),
                                   timer[Local])
         IN  /\ end.tbl
                  = MergeListed(kBuckets[Local], MyID(Local),
                                decodeMessage(
                                  createWelcomeMessage(PeerName(Bootstrap),
                                                       peers)).peers,
                                timer[Local])
             /\ end.log[1] = Line("Processing Welcome message", NoID)
             /\ Len(end.log) = 1 + Cardinality(OthersOf(peers, MyID(Local)))
             /\ \A i \in 2..Len(end.log) : end.log[i].id # MyID(Local)
             /\ ~hasPeer(end.tbl, MyID(Local))
             /\ \A id \in PeerIDsOf(end.tbl) \ PeerIDsOf(kBuckets[Local]) :
                  \E i \in OthersOf(peers, MyID(Local)) :
                    /\ peers[i].peerID = id
                    /\ RecordOf(CHOOSE n \in Procs : MyID(n) = id, 0)
                         = peers[i]

\* A Welcome was processed after the first tick: a listed peer is in the
\* table with lastSeen the current tick.
WelcomeMergesWitness ==
  /\ Local \in joined
  /\ timer[Local] > 0
  /\ Len(log) >= 2
  /\ log[1] = Line("Processing Welcome message", NoID)
  /\ log[2].line = "Added peer"
  /\ \E b \in DOMAIN kBuckets[Local] :
       /\ kBuckets[Local][b] # <<>>
       /\ kBuckets[Local][b][1].peerID = log[2].id
       /\ kBuckets[Local][b][1].lastSeen = timer[Local]
       /\ kBuckets[Local][b][1].senderName = NoName

(***************************************************************************)
(* The flood round of joinNetwork, under SpecNet.                          *)
(***************************************************************************)
\* The Hello requests on their way: the type is the second byte.
HelloRequests(conns) ==
  { c \in conns : c.dir = "request" /\ c.data.bytes[2] = HELLO }

\* What is still to happen in the network: the launches, and for every
\* connection the handlers its data can still run.  A join request is
\* answered by one join reply, a join reply by at most NumProcs - 1 flood
\* requests, a flood request by one flood reply.
FloodMeasure ==
  (2 * NumProcs + 1) * Cardinality(NetProcs \ launched)
    + 2 * NumProcs
        * Cardinality({ c \in net : c.kind = "join" /\ c.dir = "request" })
    + (2 * NumProcs - 1)
        * Cardinality({ c \in net : c.kind = "join" /\ c.dir = "reply" })
    + 2 * Cardinality({ c \in net : c.kind = "flood" /\ c.dir = "request" })
    + Cardinality({ c \in net : c.kind = "flood" /\ c.dir = "reply" })

\* C12: flooding is a single round.  The handler of the bootstrap Welcome
\* opens one connection to each peer then in the table, each to carry one
\* Hello, and nothing else opens a connection after the launch: the
\* handler of a Welcome on a flood socket leaves table and missed counts
\* as they are and sends nothing, and the handler of an inbound message
\* only writes on the socket it was given.  Every step leaves less to
\* happen than there was, so the exchange ends after finitely many
\* messages.
FloodSingleRound ==
  [][/\ (log' # <<>> /\ log'[1].line = "Processing Welcome message")
          => \E c \in net \ net' :
               LET peers == getAllPeers(kBuckets'[c.from])
                   hello == createHelloMessage(PeerName(c.from), peers,
                                               SelfInfoOf(c.from))
               IN  /\ c.dir = "reply" /\ c.kind = "join"
                   /\ sent' = [i \in 1..Len(peers) |->
                                 Connect(peers[i].ip, peers[i].port, hello)]
                   /\ net' = (net \ {c})
                               \cup { Conn(c.from,
                                           ListenerOf(peers[i].ip,
                                                      peers[i].port),
                                           "flood", "request", hello) :
                                        i \in 1..Len(peers) }
                   /\ Cardinality(HelloRequests(net') \ net) = Len(peers)
     /\ (log' # <<>> /\ log'[1].line = "Received Welcome or Unknown")
          => /\ kBuckets' = kBuckets
             /\ missedCounts' = missedCounts
             /\ sent' = <<>>
             /\ \E c \in net :
                  /\ c.dir = "reply" /\ c.kind = "flood"
                  /\ net' = net \ {c}
     /\ (log' # <<>> /\ log'[1].line = "Adding connecting peer")
          => /\ \A i \in 1..Len(sent') : sent'[i].kind = "write"
             /\ HelloRequests(net') \subseteq net
     /\ HelloRequests(net') \ net # {}
          => /\ log' # <<>>
             /\ log'[1].line \in {"Processing Welcome message",
                                  "Connected to target peer"}
     /\ FloodMeasure' < FloodMeasure
     /\ FloodMeasure' >= 0]_vars

\* A flood round is over: a process joined, knows a peer that knows it,
\* the reply to its flood Hello has been handled and nothing is on its way.
FloodSingleRoundWitness ==
  /\ log = <<Line("Received Welcome or Unknown", NoID)>>
  /\ net = {}
  /\ \E a \in joined : \E b \in NetProcs \ {a} :
       /\ hasPeer(kBuckets[a], MyID(b))
       /\ hasPeer(kBuckets[b], MyID(a))

(***************************************************************************)
(* SpecWire: process 1 and any bytes a peer can put on a connection: the   *)
(* messages of the protocol, a message of a type the protocol does not     *)
(* have, and every prefix of these a sender can stop at.                   *)
(***************************************************************************)
\* A message type MESSAGE_TYPE does not have.
UnknownType == 10

\* The messages peer s can send whole.
WholeMessagesOf(s) ==
  { HelloOf(s),
    createWelcomeMessage(PeerName(s), <<WireEntry(s)>>),
    createHeartbeatMessage(PeerName(s), LocalIP, ListenPort(s), MyID(s)),
    createHeartbeatResponse(PeerName(s), LocalIP, ListenPort(s), MyID(s)),
    createMessage(UnknownType, PeerName(s), <<WireEntry(s)>>) }

\* The first k bytes of a buffer; what follows the message is lost with
\* its end.
Truncate(buffer, k) ==
  [bytes |-> SubSeq(buffer.bytes, 1, k),
   extra |-> IF k = Len(buffer.bytes) THEN buffer.extra ELSE NoSelfInfo]

\* The lengths a message with one entry can stop at, from the end of the
\* header on: any byte, but not the middle of the two bytes of the identity
\* nor the middle of the two bytes of the sender's name that ends it.
CutsOf(m) ==
  { k \in HeaderLen..Len(m.bytes) : Len(m.bytes) - k \notin {1, 3} }

\* What arrives on an accepted socket.  Every peer sends its messages
\* whole; the bootstrap peer also sends a heartbeat and a response that
\* list nobody, and messages that stop early: anywhere for a Hello, and
\* from the end of the header on for the others (before it they fail as
\* the Hello does).
InboundBuffers ==
  UNION { WholeMessagesOf(s) : s \in Senders }
    \cup { createMessage(HEARTBEAT, PeerName(Bootstrap), <<>>),
           createMessage(HEARTBEAT_RESPONSE, PeerName(Bootstrap), <<>>) }
    \cup { Truncate(HelloOf(Bootstrap), k) :
             k \in 0..Len(HelloOf(Bootstrap).bytes) }
    \cup UNION { { Truncate(m, k) : k \in CutsOf(m) } :
                   m \in WholeMessagesOf(Bootstrap) \ {HelloOf(Bootstrap)} }

\* The state process n is left in by a handler that ended in `st`; the
\* history of Spec is not kept.
CommitProgram(n, st) ==
  \E end \in {st} :
    /\ kBuckets' = [kBuckets EXCEPT ![n] = end.tbl]
    /\ missedCounts' = [missedCounts EXCEPT ![n] = end.missed]
    /\ log' = end.log
    /\ sent' = end.sent
    /\ UNCHANGED <<timer, net, launched, joined, presented, silent,
                   responded>>

\* The "data" event of an accepted socket, with any buffer.
RecvBuffer ==
  \E buffer \in InboundBuffers :
    CommitProgram(Local,
                  handleIncomingData(NodeState(Local), SelfInfoOf(Local),
                                     InboundSocket, buffer, timer[Local]))

\* What a peer writes on a socket of sendHeartbeatToPeer: a response,
\* whole, with or without its entry, or some other message; the bootstrap
\* peer also stops early in its response.
ResponseBuffers ==
  UNION { { createHeartbeatResponse(PeerName(s), LocalIP, ListenPort(s),
                                    MyID(s)),
            createMessage(HEARTBEAT_RESPONSE, PeerName(s), <<>>),
            createHeartbeatMessage(PeerName(s), LocalIP, ListenPort(s),
                                   MyID(s)) } : s \in Senders }
    \cup UNION { { Truncate(m, k) :
                     k \in 0..(HeaderLen - 1) \cup CutsOf(m) } :
                   m \in { createHeartbeatResponse(PeerName(Bootstrap),
                                                   LocalIP,
                                                   ListenPort(Bootstrap),
                                                   MyID(Bootstrap)) } }

\* The "data" event of a socket of sendHeartbeatToPeer, with any buffer;
\* the heartbeat cycle opens one to every peer of the table.
HeartbeatData ==
  \E buffer \in ResponseBuffers :
    /\ getAllPeers(kBuckets[Local]) # <<>>
    /\ CommitProgram(Local, handleHeartbeatData(NodeState(Local), buffer,
                                                timer[Local]))

\* The interval callback of startHeartbeat runs.
CycleWire ==
  CommitProgram(Local, heartbeatCycle(NodeState(Local), SelfInfoOf(Local)))

NextWire ==
  \/ RecvBuffer
  \/ HeartbeatData
  \/ CycleWire

SpecWire == Init /\ [][NextWire]_vars

(***************************************************************************)
(* The Heartbeat and HeartbeatResponse branches, under SpecWire.           *)
(***************************************************************************)
\* The buffers of a type that decode.
DecodedOfType(buffers, type) ==
  { data \in buffers :
      decodeMessage(data).ok /\ decodeMessage(data).messageType = type }

\* The buffers a socket can deliver, by what decodeMessage makes of them:
\* under a message type those that decode with it, under 0 those that do
\* not decode.
BuffersOfType ==
  [type \in {0, WELCOME, HELLO, HEARTBEAT, HEARTBEAT_RESPONSE, UnknownType} |->
     IF type = 0
     THEN { data \in InboundBuffers \cup ResponseBuffers :
              ~decodeMessage(data).ok }
     ELSE DecodedOfType(InboundBuffers \cup ResponseBuffers, type)]

\* The first peer entry of a decoded message carries an identity.
CarriesIdentity(message) ==
  Len(message.peers) > 0 /\ message.peers[1].peerID # NoID

\* The state the "data" handler of an accepted socket of process 1 ends in
\* when it is given `data` now.
AfterIncoming(data) ==
  handleIncomingData(NodeState(Local), SelfInfoOf(Local), InboundSocket,
                     data, timer[Local])

\* C13: whatever the routing table holds, the "data" handler given a
\* Heartbeat that decodes writes one message on the socket and nothing
\* else, a HeartbeatResponse whose only peer entry is the local node's ip,
\* port and identity; it calls handleHeartbeatResponse for the identity of
\* the first peer entry when that entry carries one, and calls nothing and
\* leaves table and map alone when it carries none.
HeartbeatAnswered ==
  \A data \in BuffersOfType[HEARTBEAT] :
    LET message == decodeMessage(data)
        end == AfterIncoming(data)
        reply == decodeMessage(end.sent[1].data)
    IN  /\ Len(end.sent) = 1
        /\ end.sent[1].kind = "write"
        /\ end.sent[1].ip = InboundSocket.remoteAddress
        /\ end.sent[1].port = InboundSocket.remotePort
        /\ reply.ok
        /\ reply.messageType = HEARTBEAT_RESPONSE
        /\ reply.peers = <<WireEntry(Local)>>
        /\ \A id \in DOMAIN kBuckets[Local] :
             Len(end.tbl[id]) = Len(kBuckets[Local][id])
        /\ IF CarriesIdentity(message)
           THEN /\ end.log = <<Line("Received heartbeat response",
                                    message.peers[1].peerID)>>
                /\ end.missed = MapPut(missedCounts[Local],
                                       message.peers[1].peerID, 0)
           ELSE /\ end.log = <<>>
                /\ end.missed = missedCounts[Local]
                /\ end.tbl = kBuckets[Local]

\* A Heartbeat that lists nobody was answered by a process whose table
\* does not hold the sender.
HeartbeatAnsweredWitness ==
  /\ Len(sent) = 1
  /\ sent[1].kind = "write"
  /\ decodeMessage(sent[1].data).messageType = HEARTBEAT_RESPONSE
  /\ log = <<>>
  /\ ~hasPeer(kBuckets[Local], MyID(Bootstrap))

\* The handler given a HeartbeatResponse that decodes ended in `end`: it
\* sent nothing, kept the peers of the table, and left in the map the
\* count 0 for the identity the first entry carries and the other counts.
ResponseTaken(data, end) ==
  LET message == decodeMessage(data)
  IN  /\ end.sent = <<>>
      /\ \A b \in DOMAIN kBuckets[Local] :
           Len(end.tbl[b]) = Len(kBuckets[Local][b])
      /\ CarriesIdentity(message)
           => /\ end.missed[message.peers[1].peerID] = 0
              /\ \A id \in DOMAIN missedCounts[Local] :
                   id # message.peers[1].peerID
                     => end.missed[id] = missedCounts[Local][id]

\* C14: whatever the table and the map hold, a HeartbeatResponse that
\* decodes, given to the "data" handler of an accepted socket or to the one
\* of a heartbeat socket, sets the count of the identity it carries to 0
\* and sends nothing; and what a handler has written on a socket is never a
\* Heartbeat, so that a Heartbeat is followed by one HeartbeatResponse and
\* by nothing more.
ResponseNeverAnswered ==
  /\ \A data \in BuffersOfType[HEARTBEAT_RESPONSE] :
       /\ ResponseTaken(data, AfterIncoming(data))
       /\ ResponseTaken(data, handleHeartbeatData(NodeState(Local), data,
                                                  timer[Local]))
  /\ \A i \in DOMAIN sent :
       sent[i].kind = "write"
         => /\ decodeMessage(sent[i].data).messageType # HEARTBEAT
            /\ decodeMessage(sent[i].data).messageType = HEARTBEAT_RESPONSE
                 => /\ AfterIncoming(sent[i].data).sent = <<>>
                    /\ handleHeartbeatData(NodeState(Local), sent[i].data,
                                           timer[Local]).sent = <<>>

\* A response of the bootstrap peer, a peer of the table that heartbeat
\* cycles had counted as missed, was processed: its count is 0, the stale
\* count 2 is still there for another identity, and nothing was sent.
ResponseNeverAnsweredWitness ==
  /\ log = <<Line("Received heartbeat response", MyID(Bootstrap))>>
  /\ sent = <<>>
  /\ hasPeer(kBuckets[Local], MyID(Bootstrap))
  /\ missedCounts[Local][MyID(Bootstrap)] = 0
  /\ \E id \in DOMAIN missedCounts[Local] : missedCounts[Local][id] = 2

(***************************************************************************)
(* Eviction, under Spec.                                                   *)
(***************************************************************************)
\* C15: an identity that is not in the routing table, as the identity of an
\* evicted peer is from the cycle that removed it, enters the table only
\* in a step that processes a Hello of that identity or a Welcome that
\* lists it; a step that processes a Heartbeat or a HeartbeatResponse
\* leaves the identities of the table as they are.
EvictedStaysOut ==
  [][/\ \/ kBuckets'[Local] = kBuckets[Local]
        \/ \A id \in PeerIDsOf(kBuckets'[Local])
                        \ PeerIDsOf(kBuckets[Local]) :
             \/ log'[1] = Line("Adding connecting peer", id)
             \/ /\ log'[1] = Line("Processing Welcome message", NoID)
                /\ \E peers \in WelcomeLists :
                     /\ JoinWelcomeOf(peers)
                     /\ \E i \in DOMAIN peers : peers[i].peerID = id
     /\ (log' # <<>> /\ log'[1].line = "Received heartbeat response")
          => PeerIDsOf(kBuckets'[Local]) = PeerIDsOf(kBuckets[Local])
     /\ \A i \in DOMAIN log' :
          log'[i].line = "Removing peer"
            => ~hasPeer(kBuckets'[Local], log'[i].id)]_vars

\* A heartbeat cycle has just evicted the bootstrap peer.
EvictedStaysOutWitness ==
  /\ \E i \in DOMAIN log : log[i] = Line("Removing peer", MyID(Bootstrap))
  /\ ~hasPeer(kBuckets[Local], MyID(Bootstrap))

(***************************************************************************)
(* SpecFair: the Hellos, the heartbeats and the responses process 1        *)
(* receives, with a heartbeat interval that keeps firing.  setInterval     *)
(* runs the callback of startHeartbeat again and again, which is weak      *)
(* fairness of HeartbeatCycle, WF_vars(HeartbeatCycle): the callback can   *)
(* always run, and it changes the state whenever the table holds a peer.   *)
(* The condition is written out, with "the table holds a peer" for         *)
(* ENABLED <<HeartbeatCycle>>_vars.                                        *)
(***************************************************************************)
IntervalFair ==
  \/ []<>(getAllPeers(kBuckets[Local]) = <<>>)
  \/ []<><<HeartbeatCycle>>_vars

NextBeat ==
  \/ RecvHello
  \/ RecvHeartbeat
  \/ RecvHeartbeatResponse
  \/ HeartbeatReply
  \/ HeartbeatCycle

SpecFair == Init /\ [][NextBeat]_vars /\ IntervalFair

\* The last handler processed a Heartbeat or a HeartbeatResponse that
\* carried the identity.
ResponseProcessed(id) ==
  \E i \in DOMAIN log : log[i] = Line("Received heartbeat response", id)

\* C16: while the heartbeat interval keeps firing, a peer of the routing
\* table is later absent from the table, or a Heartbeat or a
\* HeartbeatResponse that carries its identity is processed: a peer of
\* which none is processed any more is eventually absent.
SilentPeerEvicted ==
  \A s \in Senders :
    hasPeer(kBuckets[Local], MyID(s))
      ~> (~hasPeer(kBuckets[Local], MyID(s)) \/ ResponseProcessed(MyID(s)))

\* The bootstrap peer is in the table after two cycles without a response
\* of it.
SilentPeerEvictedWitness ==
  /\ hasPeer(kBuckets[Local], MyID(Bootstrap))
  /\ silent[Local][MyID(Bootstrap)] = MissLimit - 1
  /\ ~ResponseProcessed(MyID(Bootstrap))

\* C17, as the specification states it: a heartbeat cycle prints "Removing
\* peer" for a peer once, and only in the third of three cycles in a row
\* that visited the peer without a response of it processed in between.
RemovedAtThirdCycle ==
  [][(log' # <<>> /\ log'[1] = Line("Heartbeat cycle", NoID))
       => \A i \in 2..Len(log') :
            log'[i].line = "Removing peer"
              => /\ hasPeer(kBuckets[Local], log'[i].id)
                 /\ ~hasPeer(kBuckets'[Local], log'[i].id)
                 /\ \A j \in 2..Len(log') : log'[j] = log'[i] => j = i
                 /\ silent[Local][log'[i].id] = MissLimit - 1]_vars

(***************************************************************************)
(* Messages the handlers do not act on, under SpecWire.                    *)
(***************************************************************************)
\* C18: whatever the table and the map hold, the "data" handler of an
\* accepted socket given a message that decodes with a type other than
\* Hello, Heartbeat and HeartbeatResponse, a Welcome included, prints one
\* line, leaves the routing table and the missed counts as they are and
\* writes nothing; the handler of a heartbeat socket does nothing with a
\* type other than HeartbeatResponse, and the handler of the bootstrap
\* socket nothing with a type other than Welcome.
OtherTypesIgnored ==
  /\ \A data \in BuffersOfType[WELCOME] \cup BuffersOfType[UnknownType] :
       LET end == AfterIncoming(data)
       IN  /\ end.tbl = kBuckets[Local]
           /\ end.missed = missedCounts[Local]
           /\ end.sent = <<>>
           /\ end.log = <<Line("Unknown message type received.", NoID)>>
  /\ \A data \in BuffersOfType[WELCOME] \cup BuffersOfType[HELLO]
                   \cup BuffersOfType[HEARTBEAT]
                   \cup BuffersOfType[UnknownType] :
       handleHeartbeatData(NodeState(Local), data, timer[Local])
         = NodeState(Local)
  /\ \A data \in BuffersOfType[HELLO] \cup BuffersOfType[HEARTBEAT]
                   \cup BuffersOfType[HEARTBEAT_RESPONSE]
                   \cup BuffersOfType[UnknownType] :
       handleJoinData(NodeState(Local), SelfInfoOf(Local), data,
                      timer[Local]) = NodeState(Local)

\* A message of a type no branch tests was processed by a process whose
\* table holds a peer that is not the one the message lists.
OtherTypesIgnoredWitness ==
  /\ log = <<Line("Unknown message type received.", NoID)>>
  /\ sent = <<>>
  /\ getAllPeers(kBuckets[Local]) # <<>>
  /\ ~hasPeer(kBuckets[Local], MyID(Bootstrap))

\* C19: whatever the table and the map hold, a handler given a buffer that
\* does not decode prints its error line and does nothing else: it leaves
\* the routing table and the missed counts as they are and performs no
\* operation on a socket, neither a write nor a close; and in the state a
\* failed decode leaves, a Hello of any peer is still answered with one
\* Welcome and puts or keeps a peer in its bucket, and a Heartbeat is still
\* answered with one HeartbeatResponse.
DecodeFailureDropped ==
  /\ \A data \in BuffersOfType[0] :
       /\ AfterIncoming(data)
            = [NodeState(Local) EXCEPT
                 !.log = <<Line("Error handling incoming data", NoID)>>]
       /\ handleHeartbeatData(NodeState(Local), data, timer[Local])
            = [NodeState(Local) EXCEPT
                 !.log = <<Line("Error processing heartbeat response",
                                NoID)>>]
  /\ (log = <<Line("Error handling incoming data", NoID)>>
        \/ log = <<Line("Error processing heartbeat response", NoID)>>)
       => /\ sent = <<>>
          /\ \A s \in Senders :
               LET hello == AfterIncoming(HelloOf(s))
                   beat == AfterIncoming(
                             createHeartbeatMessage(PeerName(s), LocalIP,
                                                    ListenPort(s), MyID(s)))
               IN  /\ hello.log[1] = Line("Adding connecting peer", MyID(s))
                   /\ Len(hello.sent) = 1
                   /\ decodeMessage(hello.sent[1].data).messageType = WELCOME
                   /\ hello.tbl[getBucketIndex(MyID(Local), MyID(s))] # <<>>
                   /\ Len(beat.sent) = 1
                   /\ decodeMessage(beat.sent[1].data).messageType
                        = HEARTBEAT_RESPONSE

\* A buffer that does not decode was dropped by a process whose table
\* holds the bootstrap peer, counted as missed by two cycles.
DecodeFailureDroppedWitness ==
  /\ log = <<Line("Error handling incoming data", NoID)>>
  /\ hasPeer(kBuckets[Local], MyID(Bootstrap))
  /\ MyID(Bootstrap) \in DOMAIN missedCounts[Local]
  /\ missedCounts[Local][MyID(Bootstrap)] = 2

\* C20, as the specification states it: decodeMessage fails for every
\* buffer shorter than the header and for every buffer shorter than the
\* header, the peer entries and the sender name its header declares, so
\* that the "data" handler drops every such buffer with its error line.
DecodeRejectsShort ==
  \A data \in InboundBuffers :
    LET bytes == data.bytes
    IN  (\/ Len(bytes) < HeaderLen
         \/ Len(bytes) < HeaderLen + PeerEntryLen * bytes[3]
                           + (bytes[4] * ByteRange + bytes[5]))
          => /\ ~decodeMessage(data).ok
             /\ AfterIncoming(data).log
                  = <<Line("Error handling incoming data", NoID)>>

(***************************************************************************)
(* SpecDial: the outbound sockets of process 1 while they connect.  `net`  *)
(* holds one record for a socket from its creation to its "close" event,   *)
(* with the time units since its creation while it is connecting.          *)
(***************************************************************************)
\* Process 1 keeps at most this many outbound sockets at once.
MaxPending == 2

\* The delay of the setTimeout of sendHelloMessages and sendHeartbeatToPeer,
\* in time units of 1000 ms.
ConnectTimeout == 5

\* An outbound socket of process 1 to process `peer`.
Attempt(kind, peer, phase, age) ==
  [kind |-> kind, peer |-> peer, phase |-> phase, age |-> age]

\* No function arms a timeout.
TimedNever(kind) == FALSE

\* The function that opens a socket of this kind arms a setTimeout that
\* destroys the socket: sendHelloMessages and sendHeartbeatToPeer do,
\* joinNetwork does not.
Timed(kind) == kind \in {"flood", "heartbeat"}

\* joinNetwork(target), the forEach body of sendHelloMessages for a peer,
\* sendHeartbeatToPeer(peer): a socket is created and starts to connect.
Dial ==
  \E kind \in {"join", "flood", "heartbeat"}, s \in Senders :
    /\ Cardinality(net) < MaxPending
    /\ kind = "join" => s = Bootstrap
    /\ \A a \in net : ~(a.kind = kind /\ a.peer = s)
    /\ net' = net \cup {Attempt(kind, s, "connecting", 0)}
    /\ log' = IF kind = "heartbeat"
              THEN <<Line("Attempting to send heartbeat", MyID(s))>>
              ELSE <<>>
    /\ sent' = <<>>
    /\ UNCHANGED <<kBuckets, missedCounts, timer, launched, joined,
                   presented, silent, responded>>

\* The connect callback: the timeout, if there is one, is cleared and the
\* message is written.
Connected ==
  \E a \in net :
    /\ a.phase = "connecting"
    /\ net' = (net \ {a}) \cup {Attempt(a.kind, a.peer, "open", 0)}
    /\ log' = IF a.kind = "join"
              THEN <<Line("Connected to target peer", NoID)>>
              ELSE <<>>
    /\ sent' = <<Write(LocalIP, ListenPort(a.peer),
                       IF a.kind = "heartbeat"
                       THEN createHeartbeatMessage(PeerName(Local), LocalIP,
                                                   ListenPort(Local),
                                                   MyID(Local))
                       ELSE createHelloMessage(PeerName(Local),
                                               getAllPeers(kBuckets[Local]),
                                               SelfInfoOf(Local)))>>
    /\ UNCHANGED <<kBuckets, missedCounts, timer, launched, joined,
                   presented, silent, responded>>

\* The "error" event, followed by the "close" event of the socket.
SocketError ==
  \E a \in net :
    /\ net' = net \ {a}
    /\ log' = <<Line(IF a.kind = "join" THEN "Error joining network"
                     ELSE IF a.kind = "flood" THEN "Error sending Hello"
                     ELSE "Error sending heartbeat", MyID(a.peer))>>
    /\ sent' = <<>>
    /\ UNCHANGED <<kBuckets, missedCounts, timer, launched, joined,
                   presented, silent, responded>>

\* The "close" event of a connected socket.
SocketClose ==
  \E a \in net :
    /\ a.phase = "open"
    /\ net' = net \ {a}
    /\ log' = IF a.kind = "join"
              THEN <<Line("Connection closed", NoID)>>
              ELSE <<>>
    /\ sent' = <<>>
    /\ UNCHANGED <<kBuckets, missedCounts, timer, launched, joined,
                   presented, silent, responded>>

\* The callback of the setTimeout: client.destroy() and one console line.
ConnectionTimeout ==
  \E a \in net :
    /\ Timed(a.kind)
    /\ a.phase = "connecting"
    /\ a.age >= ConnectTimeout
    /\ net' = net \ {a}
    /\ log' = <<Line("Connection timeout", MyID(a.peer))>>
    /\ sent' = <<>>
    /\ UNCHANGED <<kBuckets, missedCounts, timer, launched, joined,
                   presented, silent, responded>>

\* One time unit passes.  A timeout that is due runs first; the age of a
\* socket is not counted beyond one unit past the delay.
TimePasses ==
  /\ \E a \in net : a.phase = "connecting" /\ a.age <= ConnectTimeout
  /\ \A a \in net :
       (Timed(a.kind) /\ a.phase = "connecting") => a.age < ConnectTimeout
  /\ net' = { IF a.phase = "connecting" /\ a.age <= ConnectTimeout
              THEN Attempt(a.kind, a.peer, a.phase, a.age + 1)
              ELSE a : a \in net }
  /\ log' = <<>>
  /\ sent' = <<>>
  /\ UNCHANGED <<kBuckets, missedCounts, timer, launched, joined,
                 presented, silent, responded>>

NextDial ==
  \/ Dial
  \/ Connected
  \/ SocketError
  \/ SocketClose
  \/ ConnectionTimeout
  \/ TimePasses

SpecDial == Init /\ [][NextDial]_vars

\* C21, as the specification states it: no outbound socket, of joinNetwork,
\* of sendHelloMessages or of sendHeartbeatToPeer, is still connecting more
\* than 5 time units after its creation.
EveryDialBounded ==
  \A a \in net : a.phase = "connecting" => a.age <= ConnectTimeout

\* C21: a socket of sendHelloMessages or of sendHeartbeatToPeer is never
\* still connecting more than 5 time units after its creation; the step
\* that abandons it at 5 units releases the socket, prints one line, and
\* leaves the routing table, the missed counts and every other socket as
\* they are, writing nothing.  A socket of joinNetwork has no timeout: it
\* stops connecting only when it is connected or fails.
TimedDialBounded ==
  [][/\ \A a \in net' :
          (a.kind \in {"flood", "heartbeat"} /\ a.phase = "connecting")
            => a.age <= ConnectTimeout
     /\ (log' # <<>> /\ log'[1].line = "Connection timeout")
          => /\ \E a \in net :
                  /\ a.kind \in {"flood", "heartbeat"}
                  /\ a.phase = "connecting"
                  /\ a.age = ConnectTimeout
                  /\ log' = <<Line("Connection timeout", MyID(a.peer))>>
                  /\ net' = net \ {a}
             /\ sent' = <<>>
             /\ UNCHANGED <<kBuckets, missedCounts>>
     /\ \A a \in net :
          (a.kind = "join" /\ a.phase = "connecting")
            => \/ log' = <<Line("Error joining network", MyID(a.peer))>>
               \/ \E b \in net' : b.kind = "join"]_vars

\* A socket of sendHelloMessages to the bootstrap peer has just been
\* abandoned, while the socket of joinNetwork is still connecting after
\* more than 5 time units.
TimedDialBoundedWitness ==
  /\ log = <<Line("Connection timeout", MyID(Bootstrap))>>
  /\ \E a \in net :
       a.kind = "join" /\ a.phase = "connecting" /\ a.age > ConnectTimeout

(***************************************************************************)
(* The routing table's functions, under SpecTable.                         *)
(***************************************************************************)
\* C22, as the specification states it: for every target identity,
\* getClosestPeers returns at most one record, and from a table that holds
\* a record it returns a stored record whose distance to the target is the
\* smallest of the distances of the stored records to the target.
ClosestToTarget ==
  \A n \in Procs :
    LET targetID == MyID(n)
        found == getClosestPeers(kBuckets[Local], MyID(Local), targetID)
    IN  /\ Len(found) <= 1
        /\ PeerIDsOf(kBuckets[Local]) # {}
             => /\ Len(found) = 1
                /\ found[1].peerID \in PeerIDsOf(kBuckets[Local])
                /\ \A id \in PeerIDsOf(kBuckets[Local]) :
                     Distance(targetID, found[1].peerID)
                       <= Distance(targetID, id)

\* The 16-bit values bucket indexes are computed for: the identities of the
\* model, the least and the greatest value, and the identity of process 1
\* with any one bit changed.
ProbeValues ==
  { HashTable[i] : i \in DOMAIN HashTable }
    \cup {EphemeralHash, 0, 2 ^ NumBuckets - 1}
    \cup { IF (HashTable[1] \div 2 ^ k) % 2 = 1
           THEN HashTable[1] - 2 ^ k ELSE HashTable[1] + 2 ^ k :
             k \in 0..(NumBuckets - 1) }

\* For every pair of the values, getBucketIndex is the position, counted
\* from the most significant bit, of the first bit in which they differ,
\* and 0 for a value and itself.
ProbeIndexesAgree ==
  \A a \in ProbeValues, b \in ProbeValues :
    LET index == getBucketIndex(ToHex4(a), ToHex4(b))
    IN  /\ index \in 0..(NumBuckets - 1)
        /\ IF a = b THEN index = 0
           ELSE /\ a \div 2 ^ (NumBuckets - index) = b \div 2 ^ (NumBuckets - index)
                /\ a \div 2 ^ (NumBuckets - 1 - index)
                     # b \div 2 ^ (NumBuckets - 1 - index)

\* C23: getBucketIndex depends on the two identities only; for every pair
\* of 16-bit identities it is a value of 0..15, the 0-based position from
\* the most significant bit of the first bit in which they differ, and 0
\* for identical identities; every record of the table is in the bucket
\* getBucketIndex gives its identity.
BucketIndexIsFirstDifference ==
  /\ ProbeIndexesAgree
  /\ \A b \in DOMAIN kBuckets[Local] :
       \A i \in 1..Len(kBuckets[Local][b]) :
         getBucketIndex(MyID(Local), kBuckets[Local][b][i].peerID) = b

\* The table holds the record of process 1 itself, in bucket 0, and a
\* record whose identity first differs from it in bit 1, in bucket 1.
BucketIndexIsFirstDifferenceWitness ==
  /\ kBuckets[Local][0] # <<>>
  /\ kBuckets[Local][0][1].peerID = MyID(Local)
  /\ kBuckets[Local][1] # <<>>
  /\ log = <<Line("Added peer", kBuckets[Local][1][1].peerID)>>

\* C24: whatever the table holds, pushBucket of an object without a
\* peerID, be it no record at all or the record of a process with its
\* identity taken away, reports invalid input and leaves every bucket as
\* it is.
NoIdentityRejected ==
  \A c \in Candidates :
    LET peer == [c EXCEPT !.peerID = NoID]
    IN  /\ pushBucket(kBuckets[Local], MyID(Local), peer, timer[Local])
             = kBuckets[Local]
        /\ pushBucketLine(kBuckets[Local], MyID(Local), peer)
             = Line("Invalid peer object or missing peerID", NoID)

\* pushBucket was given an object without a peerID while the table held a
\* peer.
NoIdentityRejectedWitness ==
  /\ log = <<Line("Invalid peer object or missing peerID", NoID)>>
  /\ PeerIDsOf(kBuckets[Local]) # {}

\* C25: whatever the table holds, removePeer of an identity empties the
\* bucket getBucketIndex gives the identity when the occupant of that
\* bucket has the identity, leaves the bucket as it is when it is empty or
\* its occupant has another identity, and leaves every other bucket as it
\* is.
RemoveOnlyThatIdentity ==
  \A n \in Procs :
    LET id == MyID(n)
        tbl == kBuckets[Local]
        after == removePeer(tbl, MyID(Local), id)
        index == getBucketIndex(MyID(Local), id)
    IN  /\ after[index] = IF tbl[index] # <<>> /\ tbl[index][1].peerID = id
                          THEN <<>> ELSE tbl[index]
        /\ \A b \in DOMAIN tbl : b # index => after[b] = tbl[b]
        /\ DOMAIN after = DOMAIN tbl

\* removePeer was called for an identity whose bucket holds a peer of
\* another identity, and that peer is still there; another call has
\* emptied a bucket.
RemoveOnlyThatIdentityWitness ==
  /\ log # <<>>
  /\ log[1].line = "Removed peer"
  /\ kBuckets[Local][getBucketIndex(MyID(Local), log[1].id)] # <<>>
  /\ \E b \in DOMAIN presented :
       presented[b].ever # <<>> /\ kBuckets[Local][b] = <<>>

\* pushBucket of a then b and pushBucket of b then a, on table tbl at tick
\* `now`, leave the same identity in every bucket; when a and b have the
\* same identity and lastSeen values that differ, the two orders leave the
\* same table, a bucket that was empty holds the one with the greater
\* lastSeen, and a bucket that was not holds no record of that identity
\* with a lastSeen below it.
PushedBothWays(tbl, a, b, now) ==
  LET self == MyID(Local)
      seen(c) == IF c.lastSeen = Undef THEN now ELSE c.lastSeen
      ab == pushBucket(pushBucket(tbl, self, a, now), self, b, now)
      ba == pushBucket(pushBucket(tbl, self, b, now), self, a, now)
      later == IF seen(a) > seen(b) THEN a ELSE b
      index == getBucketIndex(self, a.peerID)
  IN  /\ \A i \in DOMAIN tbl :
           /\ Len(ab[i]) = Len(ba[i])
           /\ \A k \in 1..Len(ab[i]) : ab[i][k].peerID = ba[i][k].peerID
      /\ (a.peerID = b.peerID /\ a.peerID # NoID /\ seen(a) # seen(b))
           => /\ ab = ba
              /\ tbl[index] = <<>>
                   => ab[index] = <<[later EXCEPT !.lastSeen = seen(later)]>>
              /\ (tbl[index] # <<>> /\ ab[index][1].peerID = a.peerID)
                   => ab[index][1].lastSeen >= seen(later)

\* The tables pushBucket can make of the candidates: every bucket empty or
\* holding one candidate that getBucketIndex gives that bucket, its
\* lastSeen set.
TablesOfCandidates ==
  LET self == MyID(Local)
      records == { c \in Candidates : c.peerID # NoID /\ c.lastSeen # Undef }
      used == { getBucketIndex(self, c.peerID) : c \in records }
      slots == { <<>> } \cup { <<c>> : c \in records }
      fits(f) == \A b \in used :
                   f[b] = <<>> \/ getBucketIndex(self, f[b][1].peerID) = b
  IN  { [b \in 0..(NumBuckets - 1) |-> IF b \in used THEN f[b] ELSE <<>>] :
          f \in { g \in [used -> slots] : fits(g) } }

\* PushedBothWays of every such table, of every candidate and of every
\* candidate that has a name and a lastSeen or has no identity, at the last
\* tick.
PushOrderOfTables ==
  \A tbl \in TablesOfCandidates : \A a \in Candidates :
    \A b \in { c \in Candidates :
                 c.peerID = NoID
                   \/ (c.senderName # NoName /\ c.lastSeen # Undef) } :
      PushedBothWays(tbl, a, b, MaxTick)

\* C32: the table of process 1 is always one of TablesOfCandidates, and on
\* each of them the order in which pushBucket is given two candidates does
\* not change the identity a bucket ends with; of two candidates of one
\* identity the one seen later is kept in both orders.
PushOrderIrrelevant ==
  /\ PushOrderOfTables
  /\ kBuckets[Local] \in TablesOfCandidates

\* pushBucket was given a candidate of the occupant's identity that was
\* seen no later, after the occupant: the bucket had been given both and
\* holds the one seen later.
PushOrderIrrelevantWitness ==
  \E b \in DOMAIN kBuckets[Local] :
    /\ kBuckets[Local][b] # <<>>
    /\ kBuckets[Local][b][1].lastSeen = MaxTick
    /\ log = <<Line("No update", kBuckets[Local][b][1].peerID)>>

(***************************************************************************)
(* The round trip of the wire format, under SpecHello.                     *)
(***************************************************************************)
\* Messages of every type, of every sender name of the model, and of the
\* peer lists of length 0, 1, 2, 254 and 255 decode to what was encoded;
\* a Hello decodes with the self-description it was given.
RoundTripOfLists ==
  LET entry(n) == [ip |-> LocalIP, port |-> ListenPort(n), peerID |-> MyID(n)]
      cycle(k) == [i \in 1..k |-> entry(((i - 1) % NumPeers) + 1)]
      lists == { <<>> } \cup { <<entry(n)>> : n \in Procs }
                 \cup { <<entry(n), entry(o)>> : n \in Procs, o \in Procs }
                 \cup { cycle(ByteRange - 2), cycle(ByteRange - 1) }
      names == { NoName } \cup { PeerName(n) : n \in Procs }
  IN  \A peers \in lists : \A name \in names :
        /\ \A type \in {WELCOME, HELLO, HEARTBEAT, HEARTBEAT_RESPONSE} :
             decodeMessage(createMessage(type, name, peers))
               = [ok |-> TRUE, messageType |-> type, senderName |-> name,
                  peers |-> peers, selfInfo |-> NoSelfInfo]
        /\ \A n \in Procs :
             decodeMessage(createHelloMessage(name, peers, SelfInfoOf(n)))
               = [ok |-> TRUE, messageType |-> HELLO, senderName |-> name,
                  peers |-> peers, selfInfo |-> SelfInfoOf(n)]

\* C26: a message of any type made of a sender name and of the peers a
\* routing table holds decodes to the type, the name and the (ip, port,
\* peerID) entries it was made of, in order, and to no self-description; a
\* Hello made with a self-description decodes to that self-description
\* too.  The same holds of the lists of RoundTripOfLists, whose lengths
\* reach 255.
RoundTrip ==
  /\ RoundTripOfLists
  /\ \A n \in Procs :
       LET all == getAllPeers(kBuckets[n])
           peers == [i \in 1..Len(all) |->
                       [ip |-> all[i].ip, port |-> all[i].port,
                        peerID |-> all[i].peerID]]
           name == PeerName(n)
       IN  /\ \A type \in {WELCOME, HELLO, HEARTBEAT, HEARTBEAT_RESPONSE} :
                decodeMessage(createMessage(type, name, all))
                  = [ok |-> TRUE, messageType |-> type, senderName |-> name,
                     peers |-> peers, selfInfo |-> NoSelfInfo]
           /\ decodeMessage(createHelloMessage(name, all, SelfInfoOf(n)))
                = [ok |-> TRUE, messageType |-> HELLO, senderName |-> name,
                   peers |-> peers, selfInfo |-> SelfInfoOf(n)]

\* The last handler wrote the Welcome that lists the peer of the table.
RoundTripWitness ==
  /\ getAllPeers(kBuckets[Local]) # <<>>
  /\ Len(sent) = 1
  /\ sent[1].data = createWelcomeMessage(PeerName(Local),
                                         getAllPeers(kBuckets[Local]))
  /\ decodeMessage(sent[1].data).peers[1].port
       = getAllPeers(kBuckets[Local])[1].port

(***************************************************************************)
(* SpecHello: the Hellos a peer can send to the listening socket of        *)
(* process 1, with and without a self-description and with parts of one.   *)
(***************************************************************************)
\* The Hellos of peer s.  With its self-description: listing nobody, or
\* process 1 and then s.  With a self-description that has no peerID:
\* listing nobody, or s.  With one that has no ip and no port: listing
\* nobody.  With none: listing nobody, or s.
HellosOf(s) ==
  LET whole == SelfInfoOf(s)
  IN  { createHelloMessage(PeerName(s), <<>>, whole),
        createHelloMessage(PeerName(s), <<WireEntry(Local), WireEntry(s)>>,
                           whole),
        createHelloMessage(PeerName(s), <<>>, [whole EXCEPT !.peerID = NoID]),
        createHelloMessage(PeerName(s), <<WireEntry(s)>>,
                           [whole EXCEPT !.peerID = NoID]),
        createHelloMessage(PeerName(s), <<>>,
                           [whole EXCEPT !.ip = "", !.port = Undef]),
        createMessage(HELLO, PeerName(s), <<>>),
        createMessage(HELLO, PeerName(s), <<WireEntry(s)>>) }

\* One of the Hellos of a peer arrives on an accepted socket.
HelloArrives ==
  \E s \in Senders : \E data \in HellosOf(s) :
    /\ Commit(Local, handleIncomingData(NodeState(Local), SelfInfoOf(Local),
                                        InboundSocket, data, timer[Local]))
    /\ UNCHANGED <<timer, net, launched, joined, presented>>

NextHello ==
  \/ HelloArrives
  \/ timerRun(Local)

SpecHello == Init /\ [][NextHello]_vars

\* C27: the Hello handler gives pushBucket a record whose ip and port are
\* those of the attached self-description when it has them and those of
\* the socket otherwise, and whose peerID is the self-description's, or
\* else the first peer entry's, or else getPeerID of the ip and port of
\* the record.
SenderResolvedFromRecord ==
  \A s \in Senders : \A data \in HellosOf(s) :
    LET socket == InboundSocket
        message == decodeMessage(data)
        si == message.selfInfo
        ip == IF si.present /\ si.ip # "" THEN si.ip
              ELSE StripMapped(socket.remoteAddress)
        port == IF si.present /\ si.port # Undef THEN si.port
                ELSE socket.remotePort
        peerID == IF si.present /\ si.peerID # NoID THEN si.peerID
                  ELSE IF message.peers # <<>> THEN message.peers[1].peerID
                  ELSE getPeerID(ip, port)
        record == [ip |-> ip, port |-> port, peerID |-> peerID,
                   senderName |-> message.senderName,
                   lastSeen |-> timer[Local]]
        end == handleIncomingData(NodeState(Local), SelfInfoOf(Local),
                                  socket, data, timer[Local])
    IN  /\ end.log[1] = Line("Adding connecting peer", peerID)
        /\ end.tbl = pushBucket(kBuckets[Local], MyID(Local), record,
                                timer[Local])

\* C31: whatever the table holds, the handler of a Hello leaves
\* every bucket as it is but the one getBucketIndex gives the identity of
\* the record it builds of the sender; that bucket holds what it held or
\* that record; no peer the Hello lists enters the table unless it is that
\* record's; the missed counts are left as they are.
HelloTouchesOneBucket ==
  \A s \in Senders : \A data \in HellosOf(s) :
    LET tbl == kBuckets[Local]
        socket == InboundSocket
        message == decodeMessage(data)
        senderInfo == senderInfoOf(message, socket, timer[Local])
        index == getBucketIndex(MyID(Local), senderInfo.peerID)
        end == handleIncomingData(NodeState(Local), SelfInfoOf(Local),
                                  socket, data, timer[Local])
    IN  /\ DOMAIN end.tbl = DOMAIN tbl
        /\ \A b \in DOMAIN tbl : b # index => end.tbl[b] = tbl[b]
        /\ end.tbl[index] \in { tbl[index], <<senderInfo>> }
        /\ \A i \in 1..Len(message.peers) :
             (hasPeer(end.tbl, message.peers[i].peerID)
                /\ ~hasPeer(tbl, message.peers[i].peerID))
               => message.peers[i].peerID = senderInfo.peerID
        /\ end.missed = missedCounts[Local]

\* A Hello was handled by a process whose table held a peer in another
\* bucket: the table holds the two peers and the Welcome lists them.
HelloTouchesOneBucketWitness ==
  /\ log # <<>>
  /\ log[1].line = "Adding connecting peer"
  /\ hasPeer(kBuckets[Local], log[1].id)
  /\ Len(getAllPeers(kBuckets[Local])) = 2
  /\ Len(sent) = 1
  /\ Len(decodeMessage(sent[1].data).peers) = 2

(***************************************************************************)
(* The missed counts and the table under the handlers.                     *)
(***************************************************************************)
\* C28: between handlers every count the map holds is 0, 1 or 2; one run
\* of the heartbeat interval adds exactly 1 to the count (none counting as
\* 0) of every peer the table holds when it starts, the count that reaches
\* 3 being deleted with the peer in the same run and never kept, and
\* leaves the count of every other identity as it is.
CycleCountsByOne ==
  LET before == missedCounts[Local]
      present == PeerIDsOf(kBuckets[Local])
      end == heartbeatCycle(NodeState(Local), SelfInfoOf(Local))
      count(id) == IF id \in DOMAIN before THEN before[id] ELSE 0
  IN  /\ \A id \in DOMAIN before : before[id] \in 0..(MissLimit - 1)
      /\ \A id \in present :
           IF count(id) + 1 >= MissLimit
           THEN id \notin DOMAIN end.missed /\ ~hasPeer(end.tbl, id)
           ELSE /\ id \in DOMAIN end.missed
                /\ end.missed[id] = count(id) + 1
      /\ \A id \in (DOMAIN before \cup DOMAIN end.missed) \ present :
           /\ id \in DOMAIN before
           /\ id \in DOMAIN end.missed
           /\ end.missed[id] = before[id]

\* The interval has just run: the peer of the table is at count 2, and the
\* map holds the count of an identity the table does not hold.
CycleCountsByOneWitness ==
  /\ log # <<>>
  /\ log[1] = Line("Heartbeat cycle", NoID)
  /\ \E id \in PeerIDsOf(kBuckets[Local]) :
       id \in DOMAIN missedCounts[Local] /\ missedCounts[Local][id] = 2
  /\ \E id \in DOMAIN missedCounts[Local] :
       id \notin PeerIDsOf(kBuckets[Local]) /\ missedCounts[Local][id] > 0

\* C29, as the specification states it: a peer that a handler inserts into
\* the table, for the first time or again, starts with no missed count or
\* with the count 0, so that no fewer than 3 cycles visit it before it is
\* removed.
InsertedStartsAtZero ==
  [][\A id \in PeerIDsOf(kBuckets'[Local]) \ PeerIDsOf(kBuckets[Local]) :
       \/ id \notin DOMAIN missedCounts'[Local]
       \/ missedCounts'[Local][id] = 0]_vars

\* C30: whatever the table and the map hold, handleHeartbeatResponse of an
\* identity leaves every bucket with the records it had, each with its
\* peerID, ip, port and name; the record of that identity, if the table
\* has one, gets the current tick as lastSeen and every other record keeps
\* its lastSeen; the count of every other identity is left as it is.
ResponseOnlyTouches ==
  \A id \in { MyID(n) : n \in Procs } \cup { ToHex4(EphemeralHash) } :
    LET tbl == kBuckets[Local]
        before == missedCounts[Local]
        end == handleHeartbeatResponse(NodeState(Local), id, timer[Local])
    IN  /\ DOMAIN end.tbl = DOMAIN tbl
        /\ PeerIDsOf(end.tbl) = PeerIDsOf(tbl)
        /\ \A b \in DOMAIN tbl :
             /\ Len(end.tbl[b]) = Len(tbl[b])
             /\ \A i \in 1..Len(tbl[b]) :
                  /\ end.tbl[b][i].peerID = tbl[b][i].peerID
                  /\ end.tbl[b][i].ip = tbl[b][i].ip
                  /\ end.tbl[b][i].port = tbl[b][i].port
                  /\ end.tbl[b][i].senderName = tbl[b][i].senderName
                  /\ end.tbl[b][i].lastSeen
                       = IF tbl[b][i].peerID = id THEN timer[Local]
                         ELSE tbl[b][i].lastSeen
        /\ \A other \in (DOMAIN before \cup DOMAIN end.missed) \ {id} :
             /\ other \in DOMAIN before
             /\ other \in DOMAIN end.missed
             /\ end.missed[other] = before[other]

\* A response of the peer of the table was processed at a tick after 0
\* while the map held the count of another identity.
ResponseOnlyTouchesWitness ==
  \E i \in 1..Len(log) :
    /\ log[i].line = "Received heartbeat response"
    /\ hasPeer(kBuckets[Local], log[i].id)
    /\ timer[Local] > 0
    /\ \A p \in 1..Len(getAllPeers(kBuckets[Local])) :
         getAllPeers(kBuckets[Local])[p].lastSeen = timer[Local]
    /\ \E other \in DOMAIN missedCounts[Local] \ {log[i].id} :
         missedCounts[Local][other] > 0

\* C34: every message the last handler wrote or queued for a connection
\* decodes; a Hello or a Welcome lists no more than 16 peers, as many as
\* its count byte says and as many as the table holds; a Heartbeat or a
\* HeartbeatResponse lists one peer, the ip, port and identity of the
\* process that sends it.
SentListsFit ==
  /\ Len(getAllPeers(kBuckets[Local])) <= NumBuckets
  /\ \A i \in DOMAIN sent :
       LET message == decodeMessage(sent[i].data)
           count == sent[i].data.bytes[3]
       IN  /\ message.ok
           /\ message.messageType
                \in {HELLO, WELCOME, HEARTBEAT, HEARTBEAT_RESPONSE}
           /\ message.messageType \in {HELLO, WELCOME}
                => /\ Len(message.peers) <= NumBuckets
                   /\ count = Len(message.peers)
                   /\ count < ByteRange
                   /\ message.peers = WireEntriesOf(kBuckets[Local])
           /\ message.messageType \in {HEARTBEAT, HEARTBEAT_RESPONSE}
                => /\ count = 1
                   /\ message.peers = <<WireEntry(Local)>>

\* The last handler queued a Hello that lists the peer of the table.
SentListsFitWitness ==
  /\ getAllPeers(kBuckets[Local]) # <<>>
  /\ \E i \in DOMAIN sent :
       /\ sent[i].kind = "connect"
       /\ decodeMessage(sent[i].data).messageType = HELLO
       /\ Len(decodeMessage(sent[i].data).peers) = 1

(***************************************************************************)
(* SpecOwn: the handlers that fill the table of process 1, with a peer     *)
(* that sends a Hello without a self-description listing the peers of its  *)
(* table, process 1 first.                                                 *)
(***************************************************************************)
\* A Hello of peer s arrives that carries no self-description and lists
\* process 1 before s.
HelloListsReceiver ==
  \E s \in Senders :
    /\ Commit(Local,
              handleIncomingData(
                NodeState(Local), SelfInfoOf(Local), InboundSocket,
                createMessage(HELLO, PeerName(s),
                              <<WireEntry(Local), WireEntry(s)>>),
                timer[Local]))
    /\ UNCHANGED <<timer, net, launched, joined, presented>>

NextOwn ==
  \/ HelloListsReceiver
  \/ RecvHello
  \/ RecvHeartbeatResponse
  \/ HeartbeatCycle
  \/ JoinWelcome

SpecOwn == Init /\ [][NextOwn]_vars

\* C33, as the specification states it: no bucket of the table of process
\* 1 holds a record of the identity of process 1.
OwnIdentityNeverStored ==
  ~hasPeer(kBuckets[Local], MyID(Local))
=============================================================================
